---- MODULE Spec2Model ----
(***************************************************************************)
(* Game Timeline Store of moba_analysis_app/backend                        *)
(* (services/live_game_analysis/game_state/game_state_service.py), the     *)
(* HTTP routes of api/game_state.py that call it, and the asyncio          *)
(* scheduling of core/worker.py under which its mutations run.             *)
(*                                                                         *)
(* Text that the code takes apart (timer strings, live_game_info keys,     *)
(* match titles) is a sequence of one-character strings; text that is only *)
(* stored and compared is a TLA+ string.  A JSON value is a tagged record: *)
(* [t |-> "null"], [t |-> "num", v |-> n], [t |-> "str", v |-> s] or       *)
(* [t |-> "dict", m |-> f] with f a function from key names to JSON        *)
(* values.  live_game_info, whose iteration order end_game depends on, is  *)
(* an insertion-ordered mapping [ord |-> <<keys>>, m |-> f].               *)
(***************************************************************************)
EXTENDS Integers, Sequences, FiniteSets, TLC

VARIABLES
    disk,   \* matches_history: slug -> persisted document, or NoFile
    prev,   \* the disk as it was when the last call began
    last,   \* the last call: operation, arguments, exception, returned value
    nops,   \* number of calls made
    running, \* the task that holds the event-loop thread: {} or {task}
    tasks,  \* per task: position, store call, file read, file to write
    queue,  \* core.worker.queue: the jobs put and not yet taken
    serial, \* the disk had the same calls run one after another in a reference
            \* order: the order of their saves, or the reverse order of arrival
    vision, \* the last call of a frame-analysis function: arguments and result
    wk      \* core.worker: _worker_task, the _worker_loop tasks created, the
            \* queue's count of unfinished jobs, and what became of each job

vars == <<disk, prev, last, nops, running, tasks, queue, serial, vision, wk>>

-----------------------------------------------------------------------------
(* Bounds of the model *)

MaxOps == 3
\* HTTP requests served by the event loop
MaxRequests == 3
\* sub-boxes asked of subdivide_roi, and the widest box
MaxSeats == 6
MaxWidth == 12
\* accepted matches of one reference image
MaxGood == 2
\* red rectangles handed to fusionar_pequenos
MaxRects == 3
\* jobs put on the worker queue, and cancellations of the worker task
MaxJobs == 3
MaxCancels == 1

-----------------------------------------------------------------------------
(* JSON values *)

JNull == [t |-> "null"]
JNum(n) == [t |-> "num", v |-> n]
JStr(s) == [t |-> "str", v |-> s]
JDict(f) == [t |-> "dict", m |-> f]
EmptyDict == JDict(<<>>)

\* isinstance(v, dict)
IsDict(v) == v.t = "dict"

\* an exception propagating out of an expression
Raise(e) == [t |-> "raise", exc |-> e]
IsRaise(v) == v.t = "raise"

\* a one-entry and a two-entry mapping
D1(k, v) == JDict([x \in {k} |-> v])
D2(k1, v1, k2, v2) == JDict([x \in {k1, k2} |-> IF x = k1 THEN v1 ELSE v2])

-----------------------------------------------------------------------------
(* Text as character sequences *)

Digits == <<"0", "1", "2", "3", "4", "5", "6", "7", "8", "9">>

IsDigit(c) == \E i \in 1..10 : Digits[i] = c
DigitVal(c) == (CHOOSE i \in 1..10 : Digits[i] = c) - 1

RECURSIVE DecStr(_)
\* decimal digits of n >= 0, no padding
DecStr(n) == IF n < 10 THEN <<Digits[n + 1]>>
             ELSE DecStr(n \div 10) \o <<Digits[(n % 10) + 1]>>

\* f"{n:02d}"
Fmt02d(n) == IF n < 0 THEN <<"-">> \o DecStr(-n)
             ELSE IF n < 10 THEN <<"0">> \o DecStr(n)
             ELSE DecStr(n)

RECURSIVE DigitsVal(_, _)
DigitsVal(s, acc) == IF s = <<>> THEN acc
                     ELSE DigitsVal(Tail(s), acc * 10 + DigitVal(Head(s)))

AllDigits(s) == s # <<>> /\ \A i \in 1..Len(s) : IsDigit(s[i])

\* int(s) for a str s: an optional sign and decimal digits, ValueError otherwise
PyInt(s) ==
    IF AllDigits(s) THEN [exc |-> "none", val |-> DigitsVal(s, 0)]
    ELSE IF s # <<>> /\ Head(s) \in {"+", "-"} /\ AllDigits(Tail(s))
         THEN [exc |-> "none",
               val |-> IF Head(s) = "-" THEN 0 - DigitsVal(Tail(s), 0)
                       ELSE DigitsVal(Tail(s), 0)]
    ELSE [exc |-> "ValueError", val |-> 0]

RECURSIVE SplitAcc(_, _, _)
SplitAcc(s, sep, cur) ==
    IF s = <<>> THEN <<cur>>
    ELSE IF Head(s) = sep THEN <<cur>> \o SplitAcc(Tail(s), sep, <<>>)
    ELSE SplitAcc(Tail(s), sep, Append(cur, Head(s)))

\* s.split(sep) for a one-character separator
Split(s, sep) == SplitAcc(s, sep, <<>>)

K_startGame == <<"s", "t", "a", "r", "t", "G", "a", "m", "e">>
K_endGame == <<"e", "n", "d", "G", "a", "m", "e">>
K_winner == <<"w", "i", "n", "n", "e", "r">>

Lowers == <<"a", "b", "c", "d", "e", "f", "g", "h", "i", "j", "k", "l", "m",
            "n", "o", "p", "q", "r", "s", "t", "u", "v", "w", "x", "y", "z">>
Uppers == <<"A", "B", "C", "D", "E", "F", "G", "H", "I", "J", "K", "L", "M",
            "N", "O", "P", "Q", "R", "S", "T", "U", "V", "W", "X", "Y", "Z">>

IsLower(c) == \E i \in 1..26 : Lowers[i] = c
IsUpper(c) == \E i \in 1..26 : Uppers[i] = c

\* one character of str.lower() / str.upper()
LowerChar(c) == IF IsUpper(c) THEN Lowers[CHOOSE i \in 1..26 : Uppers[i] = c] ELSE c
UpperChar(c) == IF IsLower(c) THEN Uppers[CHOOSE i \in 1..26 : Lowers[i] = c] ELSE c

PyLower(s) == [i \in 1..Len(s) |-> LowerChar(s[i])]
PyUpper(s) == [i \in 1..Len(s) |-> UpperChar(s[i])]

RECURSIVE Join(_)
\* the characters of s as one string
Join(s) == IF s = <<>> THEN "" ELSE Head(s) \o Join(Tail(s))

-----------------------------------------------------------------------------
(* game_state.py: the domain model and its serialiser *)

\* Role, in definition order
RoleNames == <<"TOP", "JUNGLE", "MID", "BOT", "SUPPORT">>
Roles == {RoleNames[i] : i \in 1..Len(RoleNames)}

\* dataclass instances carry the tag "dc", Enum members the tag "enum"
Dc(f) == [t |-> "dc", m |-> f]
EnumMember(name) == [t |-> "enum", name |-> name]

PlayerStats ==
    Dc([f \in {"health_pct", "mana_pct", "position", "kills", "deaths",
               "assists", "cs", "gold"} |-> JNull])

TeamStats ==
    Dc([f \in {"total_kills", "total_gold", "towers", "objectives"} |-> JNull])

GlobalTimers ==
    Dc([f \in {"dragon_timer", "baron_timer", "herald_timer", "voidgrub_timer",
               "atahkan_timer"} |-> JNull])

Team(color) ==
    Dc([f \in {"color", "players", "stats"} |->
          CASE f = "color" -> EnumMember(color)
            [] f = "players" -> JDict([r \in Roles |-> PlayerStats])
            [] f = "stats" -> TeamStats])

GameSnapshot ==
    Dc([f \in {"blue", "red", "global_"} |->
          CASE f = "blue" -> Team("BLUE")
            [] f = "red" -> Team("RED")
            [] f = "global_" -> GlobalTimers])

RECURSIVE to_json_compat(_)
\* dataclass -> mapping of its fields, Enum -> its name, mapping -> mapping,
\* primitives unchanged
to_json_compat(obj) ==
    CASE obj.t = "dc" -> JDict([k \in DOMAIN obj.m |-> to_json_compat(obj.m[k])])
      [] obj.t = "enum" -> JStr(obj.name)
      [] obj.t = "dict" -> JDict([k \in DOMAIN obj.m |-> to_json_compat(obj.m[k])])
      [] OTHER -> obj

\* an insertion-ordered mapping: the empty one, lookup, and dst[k] = v
OrdEmpty == [ord |-> <<>>, m |-> <<>>]
OrdHas(d, k) == \E i \in 1..Len(d.ord) : d.ord[i] = k
OrdKeys(d) == {d.ord[i] : i \in 1..Len(d.ord)}
\* mutant of OrdPut: the key is appended to the order even when it is there
OrdPut_appends(d, k, v) ==
    [ord |-> Append(d.ord, k),
     m |-> [x \in OrdKeys(d) \cup {k} |-> IF x = k THEN v ELSE d.m[x]]]

OrdPut(d, k, v) ==
    IF OrdHas(d, k)
    THEN [ord |-> d.ord, m |-> [x \in OrdKeys(d) |-> IF x = k THEN v ELSE d.m[x]]]
    ELSE [ord |-> Append(d.ord, k),
          m |-> [x \in OrdKeys(d) \cup {k} |-> IF x = k THEN v ELSE d.m[x]]]

\* GameTimeline(): default draft, no snapshot
StaticTeamInfo(color) ==
    [color |-> EnumMember(color), team_name |-> "", champions |-> [r \in Roles |-> ""]]

GameTimeline ==
    [static_game_info |-> [blue |-> StaticTeamInfo("BLUE"), red |-> StaticTeamInfo("RED")],
     live_game_info |-> OrdEmpty]

-----------------------------------------------------------------------------
(* game_state_service.py: internal helpers *)

\* unicodedata.normalize("NFKD", c).encode("ascii", "ignore").decode() of one
\* character: an accented letter keeps its base letter, a character without
\* an ASCII decomposition disappears
AsciiFold(c) ==
    CASE c = "e_acute" -> <<"e">>
      [] c = "hangul_t" -> <<>>
      [] OTHER -> <<c>>

RECURSIVE AsciiFoldAll(_)
AsciiFoldAll(s) == IF s = <<>> THEN <<>> ELSE AsciiFold(Head(s)) \o AsciiFoldAll(Tail(s))

\* [a-zA-Z0-9.\-]
SlugChar(c) == IsLower(c) \/ IsUpper(c) \/ IsDigit(c) \/ c \in {".", "-"}

RECURSIVE SubRuns(_, _)
\* re.sub(r"[^a-zA-Z0-9.\-]+", "-", s); inRun: the previous character was replaced
SubRuns(s, inRun) ==
    IF s = <<>> THEN <<>>
    ELSE IF SlugChar(Head(s)) THEN <<Head(s)>> \o SubRuns(Tail(s), FALSE)
    ELSE IF inRun THEN SubRuns(Tail(s), TRUE)
    ELSE <<"-">> \o SubRuns(Tail(s), TRUE)

RECURSIVE LStrip(_, _)
LStrip(s, c) == IF s # <<>> /\ Head(s) = c THEN LStrip(Tail(s), c) ELSE s

RECURSIVE RStrip(_, _)
RStrip(s, c) == IF s # <<>> /\ s[Len(s)] = c THEN RStrip(SubSeq(s, 1, Len(s) - 1), c) ELSE s

_slugify(text) ==
    LET slug == PyLower(RStrip(LStrip(SubRuns(AsciiFoldAll(text), FALSE), "-"), "-"))
    IN IF slug = <<>> THEN <<"m", "a", "t", "c", "h">> ELSE slug

\* mutant of _path_for: every match is kept in one file
_path_for_shared(title) == <<"m", "a", "t", "c", "h">>

\* the file of a match is located by the slug of its title alone
_path_for(title) == _slugify(title)

\* iteration order of the keys of an incoming mapping
KeyOrder == <<"a", "b", "c", "blue", "red", "global_", "players", "stats",
              "baron_timer", "TOP">>
KeyRank(k) == IF \E i \in 1..Len(KeyOrder) : KeyOrder[i] = k
              THEN CHOOSE i \in 1..Len(KeyOrder) : KeyOrder[i] = k
              ELSE Len(KeyOrder) + 1
FirstKey(S) == CHOOSE k \in S : \A j \in S : KeyRank(k) <= KeyRank(j)

\* mutant of _deep_merge: the incoming mapping replaces what is stored
_deep_merge_replaces(dst, inc) == inc

RECURSIVE _deep_merge(_, _)
\* for k, v in inc.items(): dst[k] = _deep_merge(dst.get(k, {}), v) if isinstance(v, dict) else v
\* return dst
\* inc is a mapping; dst is whatever is stored.  With dst not a mapping the
\* first iteration raises (dst.get: AttributeError, dst[k] = v: TypeError);
\* with inc empty the loop body never runs and dst is returned as it is.
_deep_merge(dst, inc) ==
    IF DOMAIN inc.m = {} THEN dst
    ELSE IF ~IsDict(dst)
         THEN IF IsDict(inc.m[FirstKey(DOMAIN inc.m)])
              THEN Raise("AttributeError") ELSE Raise("TypeError")
    ELSE LET sub == [k \in DOMAIN inc.m |->
                        IF IsDict(inc.m[k])
                        THEN _deep_merge(IF k \in DOMAIN dst.m THEN dst.m[k] ELSE EmptyDict,
                                         inc.m[k])
                        ELSE inc.m[k]]
             bad == {k \in DOMAIN inc.m : IsRaise(sub[k])}
         IN IF bad # {} THEN sub[FirstKey(bad)]
            ELSE JDict([k \in DOMAIN dst.m \cup DOMAIN inc.m |->
                           IF k \in DOMAIN inc.m THEN sub[k] ELSE dst.m[k]])

\* the persisted JSON document of a match; NoFile: game_state.json does not exist
NoFile == [t |-> "nofile"]
Exists(f) == f.t = "file"

\* json.dumps(to_json_compat(tl)): the dataclass tree as nested mappings, the
\* colour of each side by its Enum name
Serialise(tl) ==
    [t |-> "file",
     static_game_info |->
        [side \in {"blue", "red"} |->
            [tl.static_game_info[side] EXCEPT !.color = tl.static_game_info[side].color.name]],
     live_game_info |-> tl.live_game_info]

\* mutant of _dict_to_timeline: only live_game_info is taken from raw
_dict_to_timeline_liveOnly(raw) == [GameTimeline EXCEPT !.live_game_info = raw.live_game_info]

\* raw -> GameTimeline: a fresh timeline whose four draft fields and
\* live_game_info are taken from raw
_dict_to_timeline(raw) ==
    [static_game_info |->
        [blue |-> [GameTimeline.static_game_info.blue EXCEPT
                     !.team_name = raw.static_game_info.blue.team_name,
                     !.champions = raw.static_game_info.blue.champions],
         red |-> [GameTimeline.static_game_info.red EXCEPT
                     !.team_name = raw.static_game_info.red.team_name,
                     !.champions = raw.static_game_info.red.champions]],
     live_game_info |-> raw.live_game_info]

\* mutant of _load: a missing file is read as an empty timeline
_load_default(d, title) ==
    IF ~Exists(d[_path_for(title)])
    THEN [exc |-> "none", tl |-> GameTimeline]
    ELSE [exc |-> "none", tl |-> _dict_to_timeline(d[_path_for(title)])]

\* file -> timeline, FileNotFoundError when the file does not exist
_load(d, title) ==
    IF ~Exists(d[_path_for(title)])
    THEN [exc |-> "FileNotFoundError", tl |-> GameTimeline]
    ELSE [exc |-> "none", tl |-> _dict_to_timeline(d[_path_for(title)])]

\* the disk after writing tl to the file of title
_save(d, title, tl) == [d EXCEPT ![_path_for(title)] = Serialise(tl)]

RECURSIVE NormaliseFrom(_, _)
\* the loop of _normalise_champ_dict over src, a sequence of <<key, value>>
\* pairs in insertion order; a key is a Role member or a str
NormaliseFrom(src, out) ==
    IF src = <<>> THEN out
    ELSE LET k == Head(src)[1]
             v == Head(src)[2]
             key == IF k.t = "enum" THEN k.name ELSE Join(PyUpper(k.chars))
         IN NormaliseFrom(Tail(src),
                          IF key \in Roles THEN [out EXCEPT ![key] = v] ELSE out)

_normalise_champ_dict(src) == NormaliseFrom(src, [r \in Roles |-> ""])

-----------------------------------------------------------------------------
(* game_state_service.py: public API.  Each operator gives the exception     *)
(* that leaves the call ("none": it returned), the disk afterwards and the   *)
(* returned value.                                                           *)

Outcome(e, d, r) == [exc |-> e, disk |-> d, ret |-> r]

\* mutant of start_game: an existing timeline keeps its live_game_info
start_game_keepsHistory(d, match_title, blue_team_name, blue_champions, red_team_name, red_champions) ==
    LET old == IF Exists(d[_path_for(match_title)])
               THEN d[_path_for(match_title)].live_game_info
               ELSE GameTimeline.live_game_info
        tl == [static_game_info |->
                  [blue |-> [GameTimeline.static_game_info.blue EXCEPT
                               !.team_name = blue_team_name,
                               !.champions = _normalise_champ_dict(blue_champions)],
                   red |-> [GameTimeline.static_game_info.red EXCEPT
                               !.team_name = red_team_name,
                               !.champions = _normalise_champ_dict(red_champions)]],
               live_game_info |-> OrdPut(old, K_startGame, to_json_compat(GameSnapshot))]
    IN Outcome("none", _save(d, match_title, tl), JNull)

\* mutant of start_game: the initial snapshot goes under the time key 00:00
start_game_timeKey(d, match_title, blue_team_name, blue_champions, red_team_name, red_champions) ==
    LET tl == [static_game_info |->
                  [blue |-> [GameTimeline.static_game_info.blue EXCEPT
                               !.team_name = blue_team_name,
                               !.champions = _normalise_champ_dict(blue_champions)],
                   red |-> [GameTimeline.static_game_info.red EXCEPT
                               !.team_name = red_team_name,
                               !.champions = _normalise_champ_dict(red_champions)]],
               live_game_info |->
                  OrdPut(GameTimeline.live_game_info, <<"0", "0", ":", "0", "0">>,
                         to_json_compat(GameSnapshot))]
    IN Outcome("none", _save(d, match_title, tl), JNull)

start_game(d, match_title, blue_team_name, blue_champions, red_team_name, red_champions) ==
    LET tl == [static_game_info |->
                  [blue |-> [GameTimeline.static_game_info.blue EXCEPT
                               !.team_name = blue_team_name,
                               !.champions = _normalise_champ_dict(blue_champions)],
                   red |-> [GameTimeline.static_game_info.red EXCEPT
                               !.team_name = red_team_name,
                               !.champions = _normalise_champ_dict(red_champions)]],
               live_game_info |->
                  OrdPut(GameTimeline.live_game_info, K_startGame, to_json_compat(GameSnapshot))]
    IN Outcome("none", _save(d, match_title, tl), JNull)

\* a timer argument: a str, or an int of seconds
StrTimer(chars) == [t |-> "str", chars |-> chars]
IntTimer(n) == [t |-> "int", v |-> n]

\* the key under which a timer is stored: seconds are formatted, text is kept
TimerKey(timer) ==
    IF timer.t = "int"
    THEN Fmt02d(timer.v \div 60) \o <<":">> \o Fmt02d(timer.v % 60)
    ELSE timer.chars

add_or_update_snapshot(d, match_title, timer, snapshot_dict) ==
    LET ld == _load(d, match_title)
        tl == ld.tl
        key == TimerKey(timer)
        merged == _deep_merge(IF OrdHas(tl.live_game_info, key)
                              THEN tl.live_game_info.m[key] ELSE EmptyDict,
                              snapshot_dict)
    IN IF ld.exc # "none" THEN Outcome(ld.exc, d, JNull)
       ELSE IF IsRaise(merged) THEN Outcome(merged.exc, d, JNull)
       ELSE Outcome("none",
                    _save(d, match_title,
                          [tl EXCEPT !.live_game_info = OrdPut(@, key, merged)]),
                    JNull)

\* lambda k: int(k.split(":")[0]) * 60 + int(k.split(":")[1])
KeySeconds(k) ==
    LET parts == Split(k, ":")
        mm == PyInt(parts[1])
    IN IF mm.exc # "none" THEN [exc |-> mm.exc, val |-> 0]
       ELSE IF Len(parts) < 2 THEN [exc |-> "IndexError", val |-> 0]
       ELSE LET ss == PyInt(parts[2])
            IN IF ss.exc # "none" THEN [exc |-> ss.exc, val |-> 0]
               ELSE [exc |-> "none", val |-> mm.val * 60 + ss.val]

RECURSIVE MaxFrom(_, _)
\* the loop of max(seq, key=KeySeconds) after its first element: best is
\* replaced only by a strictly greater element; the first failing key raises
MaxFrom(seq, best) ==
    IF seq = <<>> THEN [exc |-> "none", key |-> best]
    ELSE LET c == KeySeconds(Head(seq))
         IN IF c.exc # "none" THEN [exc |-> c.exc, key |-> best]
            ELSE MaxFrom(Tail(seq),
                         IF c.val > KeySeconds(best).val THEN Head(seq) ELSE best)

MaxKey(seq) ==
    IF KeySeconds(Head(seq)).exc # "none"
    THEN [exc |-> KeySeconds(Head(seq)).exc, key |-> Head(seq)]
    ELSE MaxFrom(Tail(seq), Head(seq))

\* mutant of Usable: only endGame is left out
Usable_keepsStartGame(lgi) == SelectSeq(lgi.ord, LAMBDA k : k # K_endGame)

\* [k for k in live_game_info if k not in ("startGame", "endGame")]
Usable(lgi) == SelectSeq(lgi.ord, LAMBDA k : k \notin {K_startGame, K_endGame})

end_game(d, match_title, winner) ==
    LET ld == _load(d, match_title)
        tl == ld.tl
        usable == Usable(tl.live_game_info)
        mx == MaxKey(usable)
    IN IF ld.exc # "none" THEN Outcome(ld.exc, d, JNull)
       ELSE IF usable = <<>> THEN Outcome("RuntimeError", d, JNull)
       ELSE IF mx.exc # "none" THEN Outcome(mx.exc, d, JNull)
       ELSE Outcome("none",
                    _save(d, match_title,
                          [tl EXCEPT !.live_game_info =
                              OrdPut(OrdPut(@, K_endGame, tl.live_game_info.m[mx.key]),
                                     K_winner,
                                     JStr(IF winner = 0 THEN "BLUE" ELSE "RED"))]),
                    JNull)

\* json.loads(path.read_text()): the raw document, FileNotFoundError without a file
get_game_state(d, match_title) ==
    IF ~Exists(d[_path_for(match_title)]) THEN Outcome("FileNotFoundError", d, JNull)
    ELSE Outcome("none", d, d[_path_for(match_title)])

\* text read by the OCR, which the code takes apart
JText(chars) == [t |-> "text", chars |-> chars]

_ROLE_ORDER == <<"TOP", "JUNGLE", "MID", "BOT", "SUPPORT">>

\* stats.get(key, {}).get("parsed")
Parsed(stats, key) == IF key \in DOMAIN stats THEN stats[key] ELSE JNull

\* health.get(team, {}).get(role)
Bar(bars, team, role) ==
    IF team \in DOMAIN bars /\ role \in DOMAIN bars[team] THEN bars[team][role] ELSE JNull

\* isinstance(timer, str) and re.fullmatch(r"\d{1,2}:\d{2}", timer)
DetectionTimerOK(timer) ==
    /\ timer.t = "text"
    /\ \/ /\ Len(timer.chars) = 4
          /\ IsDigit(timer.chars[1]) /\ timer.chars[2] = ":"
          /\ IsDigit(timer.chars[3]) /\ IsDigit(timer.chars[4])
       \/ /\ Len(timer.chars) = 5
          /\ IsDigit(timer.chars[1]) /\ IsDigit(timer.chars[2]) /\ timer.chars[3] = ":"
          /\ IsDigit(timer.chars[4]) /\ IsDigit(timer.chars[5])

\* the decimal texts, among those the model submits, whose double multiplied
\* by 1000 lies just below the exact product (32.3 * 1000 is
\* 32299.999999999996 in IEEE-754 binary64)
FloatProductBelow == {<<"3", "2", ".", "3">>, <<"6", "4", ".", "1">>}

\* int(float(text) * 1_000) for a decimal text of digits with at most one
\* point; any other text is a ValueError of float()
GoldThousands(text) ==
    LET parts == Split(text, ".")
        whole == parts[1]
        frac == IF Len(parts) = 2 THEN parts[2] ELSE <<>>
        pad == SubSeq(frac \o <<"0", "0", "0">>, 1, 3)
    IN IF \/ Len(parts) > 2
          \/ whole \o frac = <<>>
          \/ ~(\A i \in 1..Len(whole \o frac) : IsDigit((whole \o frac)[i]))
       THEN [exc |-> "ValueError", val |-> 0]
       ELSE [exc |-> "none",
             val |-> DigitsVal(whole, 0) * 1000 + DigitsVal(pad, 0)
                     - (IF text \in FloatProductBelow THEN 1 ELSE 0)]

\* mutant of _player: every field is written, None where nothing was read
_player_writesNone(health, mana, stats, team, idx) ==
    LET hp == Bar(health, team, _ROLE_ORDER[idx + 1])
        mp == Bar(mana, team, _ROLE_ORDER[idx + 1])
        kda == Parsed(stats, team \o "Player" \o ToString(idx + 1) \o "kda")
        cs == Parsed(stats, team \o "Player" \o ToString(idx + 1) \o "creeps")
    IN JDict([k \in {"health_pct", "mana_pct", "kills", "deaths", "assists", "cs"} |->
                CASE k = "health_pct" -> hp
                  [] k = "mana_pct" -> mp
                  [] k = "kills" -> IF IsDict(kda) THEN kda.m["k"] ELSE JNull
                  [] k = "deaths" -> IF IsDict(kda) THEN kda.m["d"] ELSE JNull
                  [] k = "assists" -> IF IsDict(kda) THEN kda.m["a"] ELSE JNull
                  [] k = "cs" -> cs])

\* _player(team, idx) of create_snapshot_from_detection, idx counted from 0:
\* the entries of out are those whose source value is there
_player(health, mana, stats, team, idx) ==
    LET hp == Bar(health, team, _ROLE_ORDER[idx + 1])
        mp == Bar(mana, team, _ROLE_ORDER[idx + 1])
        kda == Parsed(stats, team \o "Player" \o ToString(idx + 1) \o "kda")
        cs == Parsed(stats, team \o "Player" \o ToString(idx + 1) \o "creeps")
        set == {k \in {"health_pct"} : hp # JNull} \cup {k \in {"mana_pct"} : mp # JNull}
               \cup {k \in {"kills", "deaths", "assists"} : IsDict(kda)}
               \cup {k \in {"cs"} : cs # JNull}
    IN JDict([k \in set |->
                CASE k = "health_pct" -> hp
                  [] k = "mana_pct" -> mp
                  [] k = "kills" -> kda.m["k"]
                  [] k = "deaths" -> kda.m["d"]
                  [] k = "assists" -> kda.m["a"]
                  [] k = "cs" -> cs])

\* kda["k"], kda["d"], kda["a"] of _player: a kda mapping without one of them
PlayerKeyError(stats, team, idx) ==
    LET kda == Parsed(stats, team \o "Player" \o ToString(idx + 1) \o "kda")
    IN IsDict(kda) /\ ~({"k", "d", "a"} \subseteq DOMAIN kda.m)

\* _team_stats(team) of create_snapshot_from_detection
_team_stats(stats, team) ==
    LET gold == Parsed(stats, team \o "Gold")
        towers == Parsed(stats, team \o "Towers")
        isK == /\ gold.t = "text" /\ gold.chars # <<>>
               /\ gold.chars[Len(gold.chars)] = "K"
        th == GoldThousands(SubSeq(gold.chars, 1, Len(gold.chars) - 1))
        set == {k \in {"total_gold"} : IF isK THEN th.exc = "none" ELSE gold.t = "num"}
               \cup {k \in {"towers"} : towers # JNull}
    IN JDict([k \in set |->
                CASE k = "total_gold" -> IF isK THEN JNum(th.val) ELSE gold
                  [] k = "towers" -> towers])

\* the snapshot built from a detection, or the exception of building it
DetectionSnapshot(health, mana, stats) ==
    IF \E team \in {"blue", "red"}, i \in 1..5 : PlayerKeyError(stats, team, i - 1)
    THEN Raise("KeyError")
    ELSE JDict([side \in {"blue", "red", "global_"} |->
                  IF side = "global_" THEN EmptyDict
                  ELSE JDict([f \in {"players", "stats"} |->
                         IF f = "stats" THEN _team_stats(stats, side)
                         ELSE JDict([r \in {_ROLE_ORDER[i] : i \in 1..5} |->
                                 _player(health, mana, stats, side,
                                         (CHOOSE i \in 1..5 : _ROLE_ORDER[i] = r) - 1)])])])

\* returns TRUE when the snapshot was merged, FALSE when the timer is missing
\* or is not M:SS / MM:SS text
create_snapshot_from_detection(d, match_title, health, mana, stats) ==
    LET timer == Parsed(stats, "time")
        snapshot == DetectionSnapshot(health, mana, stats)
        r == add_or_update_snapshot(d, match_title, StrTimer(timer.chars), snapshot)
    IN IF ~DetectionTimerOK(timer) THEN Outcome("none", d, FALSE)
       ELSE IF IsRaise(snapshot) THEN Outcome(snapshot.exc, d, JNull)
       ELSE IF r.exc # "none" THEN Outcome(r.exc, r.disk, JNull)
       ELSE Outcome("none", r.disk, TRUE)

\* the alias under which the worker calls it
update_game(d, match_title, health, mana, stats) ==
    create_snapshot_from_detection(d, match_title, health, mana, stats)

-----------------------------------------------------------------------------
(* api/game_state.py: POST /api/game_state/snapshot *)

\* SnapshotReq.timer: pattern ^\d{2}:\d{2}$|^\d+$
TimerPatternOK(s) ==
    \/ /\ Len(s) = 5
       /\ IsDigit(s[1]) /\ IsDigit(s[2]) /\ s[3] = ":" /\ IsDigit(s[4]) /\ IsDigit(s[5])
    \/ AllDigits(s)

\* the validated request body is handed on as it is: timer stays a str;
\* a body that fails validation is answered 422 before the handler runs, an
\* exception of the store is answered 500
snapshot_endpoint(d, match_title, timer, data) ==
    IF ~TimerPatternOK(timer) THEN Outcome("none", d, 422)
    ELSE LET r == add_or_update_snapshot(d, match_title, StrTimer(timer), data)
         IN IF r.exc # "none" THEN Outcome(r.exc, r.disk, 500)
            ELSE Outcome("none", r.disk, 202)

-----------------------------------------------------------------------------
(* Inputs *)

T_A == <<"G", "2", " ", "v", "s", " ", "T", "1">>
Titles == {T_A}
Slugs == {_path_for(title) : title \in Titles}

RoleKey(name) == EnumMember(name)
StrKey(chars) == [t |-> "str", chars |-> chars]

\* a full draft keyed by role name, and one with a lower-case key, a Role
\* key, a key that is no role and roles left out
Draft1 ==
    [blue_team_name |-> "Azure Drakes",
     blue_champions |-> << <<StrKey(<<"T", "O", "P">>), "Gwen">>,
                           <<StrKey(<<"J", "U", "N", "G", "L", "E">>), "Lee Sin">>,
                           <<StrKey(<<"M", "I", "D">>), "Orianna">>,
                           <<StrKey(<<"B", "O", "T">>), "Jinx">>,
                           <<StrKey(<<"S", "U", "P", "P", "O", "R", "T">>), "Thresh">> >>,
     red_team_name |-> "Crimson Foxes",
     red_champions |-> << <<StrKey(<<"T", "O", "P">>), "Camille">>,
                          <<StrKey(<<"J", "U", "N", "G", "L", "E">>), "Viego">>,
                          <<StrKey(<<"M", "I", "D">>), "LeBlanc">>,
                          <<StrKey(<<"B", "O", "T">>), "Kai'Sa">>,
                          <<StrKey(<<"S", "U", "P", "P", "O", "R", "T">>), "Rakan">> >>]
Draft2 ==
    [blue_team_name |-> "G2",
     blue_champions |-> << <<StrKey(<<"t", "o", "p">>), "Renekton">>,
                           <<RoleKey("MID"), "Ahri">>,
                           <<StrKey(<<"c", "o", "a", "c", "h">>), "Dylan">> >>,
     red_team_name |-> "T1",
     red_champions |-> << >>]
Drafts == {Draft1, Draft2}

F_empty == EmptyDict
F_a1 == D1("a", JNum(1))
F_a2b3 == D2("a", JNum(2), "b", JNum(3))
F_ac == D1("a", D1("c", JNum(1)))
F_ab == D1("a", D1("b", JNum(2)))
F_timer == D1("global_", D1("baron_timer", D1("a", JNum(1))))
Fragments == {F_empty, F_a1, F_a2b3, F_ac, F_ab}
StartGameFragments == {F_empty, F_a1, F_timer}
EndpointFragments == {F_a1}

K_0135 == <<"0", "1", ":", "3", "5">>
K_959 == <<"9", ":", "5", "9">>
K_1000 == <<"1", "0", ":", "0", "0">>
K_95 == <<"9", "5">>

\* timers of direct calls: raw seconds and text
DirectTimers == {IntTimer(95), IntTimer(600), StrTimer(K_959)}
\* the (timer, fragment) pairs of direct calls: every fragment at every time
\* key, and fragments addressed to the startGame snapshot
DirectCalls == (DirectTimers \X Fragments) \cup ({StrTimer(K_startGame)} \X StartGameFragments)
\* timer fields of request bodies
EndpointTimers == {K_95, K_1000, K_959}

Winners == {0, 1}

\* what the detectors return for a frame: bars, a kda, creeps, gold and towers
\* at 9:59; towers alone at 10:00; and a frame whose clock was not read
NoDetection == [health |-> <<>>, mana |-> <<>>, stats |-> <<>>]
Det_959 ==
    [health |-> [blue |-> [TOP |-> JNum(80), MID |-> JNull]],
     mana |-> [blue |-> [TOP |-> JNum(50)]],
     stats |-> ("time" :> JText(K_959)) @@ ("blueGold" :> JText(<<"3", "2", ".", "3", "K">>))
               @@ ("redGold" :> JText(<<"2", "4", ".", "5", "K">>))
               @@ ("bluePlayer1kda" :> JDict([k \in {"k", "d", "a"} |->
                                                JNum(IF k = "k" THEN 1 ELSE IF k = "d" THEN 0 ELSE 2)]))
               @@ ("bluePlayer1creeps" :> JNum(45)) @@ ("blueTowers" :> JNum(1))]
Det_1000 ==
    [health |-> <<>>, mana |-> <<>>,
     stats |-> ("time" :> JText(K_1000)) @@ ("redTowers" :> JNum(2))]
Detections == {NoDetection, Det_959, Det_1000}

\* what the worker gets of a frame: each detector returns its part of the
\* detection, or one of them raises (cv2.error on an empty crop)
Frames ==
    [det : Detections, raises : {"none"}]
    \cup [det : {Det_1000}, raises : {"detect_health_bars", "detect_mana_bars"}]

-----------------------------------------------------------------------------
(* The store under sequential calls *)

NoCall == [op |-> "none", title |-> <<>>, timer |-> StrTimer(<<>>), frag |-> EmptyDict,
           draft |-> Draft1, winner |-> 0, det |-> NoDetection, exc |-> "none",
           ret |-> JNull]

\* matches_history outlives the process: at start-up each match has no file yet
\* or the file that an earlier start_game left
NoFiles == [s \in Slugs |-> NoFile]
InitialDisks ==
    {[s \in Slugs |-> IF s \in started THEN
                          LET title == CHOOSE x \in Titles : _path_for(x) = s
                          IN start_game(NoFiles, title, Draft1.blue_team_name,
                                        Draft1.blue_champions, Draft1.red_team_name,
                                        Draft1.red_champions).disk[s]
                      ELSE NoFile] : started \in SUBSET Slugs}

\* no frame-analysis function has been called
NoVision == [op |-> "none"]

\* core.worker at import: _worker_task = None (0), no _worker_loop task, an
\* empty queue; marked[j] counts the task_done() calls for job j, log holds
\* the line the worker printed for each job
LoopIds == 1..MaxJobs
NoJob == [id |-> 0]
NoWorker == [_worker_task |-> 0,
             loops |-> [l \in LoopIds |-> [pc |-> "none", job |-> NoJob]],
             unfinished |-> 0, sent |-> 0, cancels |-> 0, taken |-> {},
             marked |-> [j \in 1..MaxJobs |-> 0], log |-> <<>>]

\* _worker_task, and the handlers of the requests
Worker == 0
Requests == 1..MaxRequests
TaskIds == {Worker} \cup Requests

\* a request not yet received; _worker_task = None
NoTask == [pc |-> "idle", call |-> NoCall, entry |-> NoFile, seen |-> NoFile, out |-> NoFile]

Init ==
    /\ disk \in InitialDisks
    /\ prev = disk
    /\ last = NoCall
    /\ nops = 0
    /\ running = {}
    /\ tasks = [t \in TaskIds |-> IF t = Worker THEN [NoTask EXCEPT !.pc = "none"] ELSE NoTask]
    /\ queue = <<>>
    /\ serial = disk
    /\ vision = NoVision
    /\ wk = NoWorker

Done(r, call) ==
    /\ disk' = r.disk
    /\ prev' = disk
    /\ last' = [call EXCEPT !.exc = r.exc, !.ret = r.ret]
    /\ nops' = nops + 1
    /\ serial' = r.disk
    /\ UNCHANGED <<running, tasks, queue, vision, wk>>

StartGame ==
    /\ nops < MaxOps
    /\ \E title \in Titles, dr \in Drafts :
          Done(start_game(disk, title, dr.blue_team_name, dr.blue_champions,
                          dr.red_team_name, dr.red_champions),
               [NoCall EXCEPT !.op = "start_game", !.title = title, !.draft = dr])

AddOrUpdateSnapshot ==
    /\ nops < MaxOps
    /\ \E title \in Titles, c \in DirectCalls :
          Done(add_or_update_snapshot(disk, title, c[1], c[2]),
               [NoCall EXCEPT !.op = "add_or_update_snapshot", !.title = title,
                              !.timer = c[1], !.frag = c[2]])

SnapshotEndpoint ==
    /\ nops < MaxOps
    /\ \E title \in Titles, timer \in EndpointTimers, frag \in EndpointFragments :
          Done(snapshot_endpoint(disk, title, timer, frag),
               [NoCall EXCEPT !.op = "snapshot_endpoint", !.title = title,
                              !.timer = StrTimer(timer), !.frag = frag])

EndGame ==
    /\ nops < MaxOps
    /\ \E title \in Titles, winner \in Winners :
          Done(end_game(disk, title, winner),
               [NoCall EXCEPT !.op = "end_game", !.title = title, !.winner = winner])

GetGameState ==
    /\ nops < MaxOps
    /\ \E title \in Titles :
          Done(get_game_state(disk, title),
               [NoCall EXCEPT !.op = "get_game_state", !.title = title])

\* update_game called with what the detectors returned
UpdateGame ==
    /\ nops < MaxOps
    /\ \E title \in Titles, det \in Detections :
          Done(update_game(disk, title, det.health, det.mana, det.stats),
               [NoCall EXCEPT !.op = "update_game", !.title = title, !.det = det])

Next ==
    \/ StartGame \/ AddOrUpdateSnapshot \/ SnapshotEndpoint \/ EndGame \/ GetGameState
    \/ UpdateGame

Spec == Init /\ [][Next]_vars

-----------------------------------------------------------------------------
(* The store under the event loop: request handlers and the worker are      *)
(* coroutines of one asyncio loop.  A coroutine keeps the thread until it   *)
(* reaches an await that has to wait; a store call is taken in the steps of *)
(* its code: read the file, compute the new document, write the file.       *)

\* the store call of a handler or of the worker, on disk d
Apply(c, d) ==
    CASE c.op = "start_game" ->
            start_game(d, c.title, c.draft.blue_team_name, c.draft.blue_champions,
                       c.draft.red_team_name, c.draft.red_champions)
      [] c.op = "snapshot_endpoint" -> snapshot_endpoint(d, c.title, c.timer.chars, c.frag)
      [] c.op = "end_game" -> end_game(d, c.title, c.winner)
      [] c.op = "update_game" -> add_or_update_snapshot(d, c.title, c.timer, c.frag)

\* the call begins with _load
Reads(c) == c.op # "start_game"

\* mutant of Suspends: the coroutine also gives up the thread between
\* reading the file and writing it
Suspends_afterLoad(pc) ==
    pc \in {"idle", "none", "done", "waiting", "extracting", "cancelled", "loaded"}

\* the positions at which a coroutine has given up the thread: a handler
\* before it is called and after it answered, the worker at queue.get() on an
\* empty queue and at async_extract_frame, and when its task has ended; no
\* store function awaits
Suspends(pc) == pc \in {"idle", "none", "done", "waiting", "extracting", "cancelled"}

\* task t may take a step: it holds the thread, or nobody does
CanRun(t) == running \subseteq {t}

\* t moves to position pc with the fields of its record set by upd
Move(t, rec) ==
    /\ tasks' = [tasks EXCEPT ![t] = rec]
    /\ running' = IF Suspends(rec.pc) THEN {} ELSE {t}
    /\ UNCHANGED <<prev, last, nops, vision, wk>>

\* the handlers of api/game_state.py begin: start_endpoint, snapshot_endpoint
\* (its body validated), end_endpoint
LoopCalls ==
    {[NoCall EXCEPT !.op = "start_game", !.title = title, !.draft = Draft2] : title \in Titles}
    \cup {[NoCall EXCEPT !.op = "snapshot_endpoint", !.title = title,
                         !.timer = StrTimer(K_1000), !.frag = frag] :
             title \in Titles, frag \in {F_a1, F_a2b3}}
    \cup {[NoCall EXCEPT !.op = "end_game", !.title = title, !.winner = 0] : title \in Titles}

Receive(t) ==
    /\ t \in Requests /\ running = {} /\ tasks[t].pc = "idle"
    /\ \A u \in Requests : u < t => tasks[u].pc # "idle"
    /\ \E c \in LoopCalls :
          Move(t, [tasks[t] EXCEPT !.pc = "call", !.call = c,
                                   !.entry = disk[_path_for(c.title)]])
    /\ UNCHANGED <<disk, queue, serial>>

\* process_main_game_ep: ensure_worker_started(), which creates the task when
\* there is none or it is done, then queue.put(job); the queue is unbounded,
\* neither await waits
ProcessMainGameEp(t) ==
    /\ t \in Requests /\ running = {} /\ tasks[t].pc = "idle"
    /\ \A u \in Requests : u < t => tasks[u].pc # "idle"
    /\ \E title \in Titles :
          /\ queue' = Append(queue, [match |-> title])
          /\ tasks' = [tasks EXCEPT
                         ![t] = [@ EXCEPT !.pc = "done", !.call.op = "process_main_game",
                                          !.call.title = title],
                         ![Worker] = IF @.pc \in {"none", "cancelled"}
                                     THEN [@ EXCEPT !.pc = "waiting"] ELSE @]
    /\ running' = {}
    /\ UNCHANGED <<disk, serial, prev, last, nops, vision, wk>>

\* the call begins: path.exists() and read_text() of _load, or, in start_game,
\* which does not load, the timeline it builds
Call(t) ==
    /\ CanRun(t) /\ tasks[t].pc = "call"
    /\ LET c == tasks[t].call
           f == disk[_path_for(c.title)]
       IN IF Reads(c)
          THEN IF Exists(f)
               THEN Move(t, [tasks[t] EXCEPT !.pc = "loaded", !.seen = f])
               ELSE Move(t, [tasks[t] EXCEPT !.pc = "raised",
                                             !.call.exc = _load(disk, c.title).exc])
          ELSE Move(t, [tasks[t] EXCEPT !.pc = "merged",
                                        !.out = Apply(c, disk).disk[_path_for(c.title)]])
    /\ UNCHANGED <<disk, queue, serial>>

\* between _load and _save: the new document is computed from the one read
Modify(t) ==
    /\ CanRun(t) /\ tasks[t].pc = "loaded"
    /\ LET c == tasks[t].call
           r == Apply(c, [disk EXCEPT ![_path_for(c.title)] = tasks[t].seen])
       IN IF r.exc = "none"
          THEN Move(t, [tasks[t] EXCEPT !.pc = "merged",
                                        !.out = r.disk[_path_for(c.title)]])
          ELSE Move(t, [tasks[t] EXCEPT !.pc = "raised", !.call.exc = r.exc])
    /\ UNCHANGED <<disk, queue, serial>>

\* path.write_text() of _save
Save(t) ==
    /\ CanRun(t) /\ tasks[t].pc = "merged"
    /\ disk' = [disk EXCEPT ![_path_for(tasks[t].call.title)] = tasks[t].out]
    /\ serial' = Apply(tasks[t].call, serial).disk
    /\ Move(t, [tasks[t] EXCEPT !.pc = "returned"])
    /\ UNCHANGED queue

\* the handler answers: 500 after an exception, its success status otherwise
Respond(t) ==
    /\ t \in Requests /\ CanRun(t) /\ tasks[t].pc \in {"returned", "raised"}
    /\ Move(t, [tasks[t] EXCEPT !.pc = "done"])
    /\ UNCHANGED <<disk, queue, serial>>

\* _worker_loop: job = await queue.get(), then up to await async_extract_frame
WorkerGet ==
    /\ CanRun(Worker) /\ tasks[Worker].pc = "waiting" /\ queue # <<>>
    /\ queue' = Tail(queue)
    /\ Move(Worker, [NoTask EXCEPT !.pc = "extracting", !.call.op = "update_game",
                                   !.call.title = Head(queue).match,
                                   !.entry = disk[_path_for(Head(queue).match)]])
    /\ UNCHANGED <<disk, serial>>

\* the frame arrives, the detectors run and update_game begins: it returns
\* False on a timer that is not M:SS text, builds the snapshot and calls
\* add_or_update_snapshot; a failed extraction, an unreadable frame or a
\* detector that raises leaves the try block
WorkerAnalyse ==
    /\ running = {} /\ tasks[Worker].pc = "extracting"
    /\ \/ \E frame \in Frames :
             LET det == frame.det
                 timer == Parsed(det.stats, "time")
                 snapshot == DetectionSnapshot(det.health, det.mana, det.stats)
             IN IF frame.raises # "none"
                THEN Move(Worker, [tasks[Worker] EXCEPT !.pc = "raised", !.call.det = det,
                                                        !.call.exc = "cv2.error",
                                                        !.call.ret = JStr(frame.raises)])
                ELSE IF ~DetectionTimerOK(timer)
                THEN Move(Worker, [tasks[Worker] EXCEPT !.pc = "returned", !.call.det = det])
                ELSE IF IsRaise(snapshot)
                THEN Move(Worker, [tasks[Worker] EXCEPT !.pc = "raised", !.call.det = det,
                                                        !.call.exc = snapshot.exc])
                ELSE Move(Worker, [tasks[Worker] EXCEPT
                                      !.pc = "call", !.call.det = det,
                                      !.call.timer = StrTimer(timer.chars),
                                      !.call.frag = snapshot])
       \/ Move(Worker, [tasks[Worker] EXCEPT !.pc = "raised", !.call.exc = "RuntimeError"])
    /\ UNCHANGED <<disk, queue, serial>>

\* except Exception / finally: queue.task_done(), and round the loop to
\* queue.get(), which waits only when the queue is empty
WorkerTaskDone ==
    /\ CanRun(Worker) /\ tasks[Worker].pc \in {"returned", "raised"}
    /\ tasks' = [tasks EXCEPT ![Worker].pc = "waiting"]
    /\ running' = IF queue = <<>> THEN {} ELSE {Worker}
    /\ UNCHANGED <<disk, queue, serial, prev, last, nops, vision, wk>>

\* mutant of Cancelled: the cancellation is caught like an error of the
\* frame and what had been detected of the job until then is merged
Cancelled_mergesPart(rec) ==
    IF rec.pc = "waiting" THEN [rec EXCEPT !.pc = "cancelled"]
    ELSE [rec EXCEPT !.pc = "call", !.call.det = Det_1000,
                     !.call.timer = StrTimer(K_1000), !.call.frag = D1("blue", EmptyDict)]

\* the worker's record after CancelledError is thrown into its await:
\* queue.get() is outside the try; inside it, except Exception does not
\* catch a CancelledError and the finally clause ends the task
Cancelled(rec) ==
    IF rec.pc = "waiting" THEN [rec EXCEPT !.pc = "cancelled"]
    ELSE [rec EXCEPT !.pc = "cancelled", !.call.exc = "CancelledError"]

\* the worker task is cancelled: the cancellation arrives at the await where
\* the task is suspended
WorkerCancelled ==
    /\ running = {} /\ tasks[Worker].pc \in {"waiting", "extracting"}
    /\ Move(Worker, Cancelled(tasks[Worker]))
    /\ UNCHANGED <<disk, queue, serial>>

NextLoop ==
    \/ \E t \in Requests : Receive(t)
    \/ \E t \in Requests : ProcessMainGameEp(t)
    \/ \E t \in TaskIds : Call(t)
    \/ \E t \in TaskIds : Modify(t)
    \/ \E t \in TaskIds : Save(t)
    \/ \E t \in Requests : Respond(t)
    \/ WorkerGet
    \/ WorkerAnalyse
    \/ WorkerTaskDone
    \/ WorkerCancelled

SpecLoop == Init /\ [][NextLoop]_vars

-----------------------------------------------------------------------------
(* The store with several matches: calls for titles that share a slug and   *)
(* for titles that do not                                                   *)

T_a == <<"g", "2", " ", "v", "s", " ", "t", "1">>
T_B == <<"K", "O", "I">>
MatchTitles == {T_A, T_a, T_B}
MatchSlugs == {_path_for(title) : title \in MatchTitles}

\* each folder of matches_history is absent or holds what start_game left
MatchDisks ==
    {[s \in MatchSlugs |-> IF s \in started THEN
                               LET title == CHOOSE x \in MatchTitles : _path_for(x) = s
                                   d0 == [x \in MatchSlugs |-> NoFile]
                               IN start_game(d0, title, Draft1.blue_team_name,
                                             Draft1.blue_champions, Draft1.red_team_name,
                                             Draft1.red_champions).disk[s]
                           ELSE NoFile] : started \in SUBSET MatchSlugs}

InitMatches ==
    /\ disk \in MatchDisks
    /\ prev = disk
    /\ last = NoCall
    /\ nops = 0
    /\ running = {}
    /\ tasks = [t \in TaskIds |-> IF t = Worker THEN [NoTask EXCEPT !.pc = "none"] ELSE NoTask]
    /\ queue = <<>>
    /\ serial = disk
    /\ vision = NoVision
    /\ wk = NoWorker

MatchStartGame ==
    /\ nops < MaxOps
    /\ \E title \in MatchTitles :
          Done(start_game(disk, title, Draft2.blue_team_name, Draft2.blue_champions,
                          Draft2.red_team_name, Draft2.red_champions),
               [NoCall EXCEPT !.op = "start_game", !.title = title, !.draft = Draft2])

MatchAddOrUpdateSnapshot ==
    /\ nops < MaxOps
    /\ \E title \in MatchTitles, timer \in {IntTimer(95), StrTimer(K_1000)},
          frag \in {F_a1, F_a2b3} :
          Done(add_or_update_snapshot(disk, title, timer, frag),
               [NoCall EXCEPT !.op = "add_or_update_snapshot", !.title = title,
                              !.timer = timer, !.frag = frag])

MatchEndGame ==
    /\ nops < MaxOps
    /\ \E title \in MatchTitles :
          Done(end_game(disk, title, 1),
               [NoCall EXCEPT !.op = "end_game", !.title = title, !.winner = 1])

NextMatches == MatchStartGame \/ MatchAddOrUpdateSnapshot \/ MatchEndGame

SpecMatches == InitMatches /\ [][NextMatches]_vars

-----------------------------------------------------------------------------
(* The store under two orders of arrival: disk takes each pair of fragments *)
(* in one order, serial takes it in the other                               *)

K_0095 == <<"0", "0", ":", "9", "5">>
OrderTimers == {IntTimer(95), StrTimer(K_0095), StrTimer(K_1000), IntTimer(30)}
OrderFragments == {F_a1, F_a2b3}

\* the keys of live_game_info of the match on disk d
KeysOf(d, title) == OrdKeys(d[_path_for(title)].live_game_info)

\* two fragments for two new time keys of a started match arrive
OrderAddPair ==
    /\ nops < MaxOps
    /\ \E title \in Titles, t1 \in OrderTimers, t2 \in OrderTimers,
          f1 \in OrderFragments, f2 \in OrderFragments :
          /\ Exists(disk[_path_for(title)])
          /\ K_endGame \notin KeysOf(disk, title)
          /\ TimerKey(t1) # TimerKey(t2)
          /\ {TimerKey(t1), TimerKey(t2)} \cap KeysOf(disk, title) = {}
          /\ disk' = add_or_update_snapshot(
                        add_or_update_snapshot(disk, title, t1, f1).disk, title, t2, f2).disk
          /\ serial' = add_or_update_snapshot(
                          add_or_update_snapshot(serial, title, t2, f2).disk, title, t1, f1).disk
          /\ last' = [NoCall EXCEPT !.op = "add_or_update_snapshot", !.title = title,
                                    !.timer = t2, !.frag = f2]
    /\ prev' = disk
    /\ nops' = nops + 1
    /\ UNCHANGED <<running, tasks, queue, vision, wk>>

\* the match ends, under both orders
OrderEndGame ==
    /\ nops < MaxOps
    /\ \E title \in Titles, winner \in Winners :
          /\ Exists(disk[_path_for(title)])
          /\ K_endGame \notin KeysOf(disk, title)
          /\ disk' = end_game(disk, title, winner).disk
          /\ serial' = end_game(serial, title, winner).disk
          /\ last' = [NoCall EXCEPT !.op = "end_game", !.title = title, !.winner = winner,
                                    !.exc = end_game(disk, title, winner).exc]
    /\ prev' = disk
    /\ nops' = nops + 1
    /\ UNCHANGED <<running, tasks, queue, vision, wk>>

NextOrder == OrderAddPair \/ OrderEndGame

SpecOrder == Init /\ [][NextOrder]_vars

-----------------------------------------------------------------------------
(* champion_matcher.py: regions of the champion-select frame.  A box is     *)
(* <<x1, y1, x2, y2>>.                                                      *)

\* mutant of subdivide_roi: all n sub-boxes have the width of the step
subdivide_roi_equalWidths(box, n) ==
    [i \in 1..n |-> <<box[1] + (i - 1) * ((box[3] - box[1]) \div n), box[2],
                      box[1] + i * ((box[3] - box[1]) \div n), box[4]>>]

\* the list comprehension over range(n), its index i counted from 1 here
subdivide_roi(box, n) ==
    LET step == (box[3] - box[1]) \div n
    IN [i \in 1..n |-> <<box[1] + (i - 1) * step, box[2],
                         IF i - 1 < n - 1 THEN box[1] + i * step ELSE box[3], box[4]>>]

-----------------------------------------------------------------------------
(* champion_matcher.py: matching a seat against the reference images.  The  *)
(* feature detector and the ratio test are inputs: targets is the sequence  *)
(* of <<name, good>> in the order of targets.items(), good the number of    *)
(* accepted matches of that reference (0 also when it has no descriptors).  *)

top_k == 5

RECURSIVE InsertByScore(_, _)
\* e goes behind every element whose score is not smaller: a stable sort
InsertByScore(sorted, e) ==
    IF sorted = <<>> THEN <<e>>
    ELSE IF Head(sorted)[2] >= e[2] THEN <<Head(sorted)>> \o InsertByScore(Tail(sorted), e)
    ELSE <<e>> \o sorted

RECURSIVE SortedByScore(_, _)
\* sorted(scores, key=lambda x: x[1], reverse=True), acc the part done
SortedByScore(acc, scores) ==
    IF scores = <<>> THEN acc
    ELSE SortedByScore(InsertByScore(acc, Head(scores)), Tail(scores))

_extract_and_match(has_descriptors, targets, k) ==
    IF ~has_descriptors THEN <<>>
    ELSE LET scores == SelectSeq(targets, LAMBDA t : t[2] > 0)
             ranked == SortedByScore(<<>>, scores)
         IN SubSeq(ranked, 1, IF Len(ranked) < k THEN Len(ranked) ELSE k)

\* _process_champion_select: preds.append(matches[0][0] if matches else "?")
SeatLabel(matches) == IF matches # <<>> THEN matches[1][1] ELSE "?"

-----------------------------------------------------------------------------
(* Point resolvers.  A template coordinate is a float; the model holds it   *)
(* as its number of halves (0 is 0.0, 1 is 0.5, 2 is 1.0, 6 is 3.0), so a    *)
(* point is <<hx, hy>>.  A size is <<w, h>>; the sizes of the model have     *)
(* ratios that are powers of two, which makes every product below exact in  *)
(* floating point, and int() of a non-negative float is its floor.          *)

None == <<>>

\* champion_matcher.scale_points: the 0-1 test reads x only and comes first
scale_points(points, fw, fh, ref_size) ==
    IF \A i \in 1..Len(points) : 0 <= points[i][1] /\ points[i][1] <= 2
    THEN [i \in 1..Len(points) |-> <<(points[i][1] * fw) \div 2, (points[i][2] * fh) \div 2>>]
    ELSE IF ref_size # None
    THEN [i \in 1..Len(points) |->
            <<(points[i][1] * fw) \div (2 * ref_size[1]), (points[i][2] * fh) \div (2 * ref_size[2])>>]
    ELSE [i \in 1..Len(points) |-> <<points[i][1] \div 2, points[i][2] \div 2>>]

\* health_detection_service._scale_pts and mana_detection_service._scale_pts:
\* the 0-1 test reads x and y and comes first
_scale_pts(pts, W, H, ref) ==
    IF \A i \in 1..Len(pts) : /\ 0 <= pts[i][1] /\ pts[i][1] <= 2
                               /\ 0 <= pts[i][2] /\ pts[i][2] <= 2
    THEN [i \in 1..Len(pts) |-> <<(pts[i][1] * W) \div 2, (pts[i][2] * H) \div 2>>]
    ELSE IF ref # None
    THEN [i \in 1..Len(pts) |->
            <<(pts[i][1] * W) \div (2 * ref[1]), (pts[i][2] * H) \div (2 * ref[2])>>]
    ELSE [i \in 1..Len(pts) |-> <<pts[i][1] \div 2, pts[i][2] \div 2>>]

\* extract_stats_ocr_service._scale_pts: the reference size comes first
_scale_pts_ocr(pts, W, H, ref) ==
    IF ref # None
    THEN [i \in 1..Len(pts) |->
            <<(pts[i][1] * W) \div (2 * ref[1]), (pts[i][2] * H) \div (2 * ref[2])>>]
    ELSE IF \A i \in 1..Len(pts) : /\ 0 <= pts[i][1] /\ pts[i][1] <= 2
                                    /\ 0 <= pts[i][2] /\ pts[i][2] <= 2
    THEN [i \in 1..Len(pts) |-> <<(pts[i][1] * W) \div 2, (pts[i][2] * H) \div 2>>]
    ELSE [i \in 1..Len(pts) |-> <<pts[i][1] \div 2, pts[i][2] \div 2>>]

-----------------------------------------------------------------------------
(* Bar detectors (health_detection_service.py, mana_detection_service.py).  *)
(* The colour mask and the contour filter are inputs: found[k] is the list  *)
(* of surviving rectangles [y, w] of the crop of template entry k, in the   *)
(* order of the contours; the result carries the tag "dict" beside its two  *)
(* teams.  A template argument is None, a parsed document   *)
(* or (mana only) the path of a document; a document is held as the         *)
(* sequence of its keys in dict order.  A percentage is held in tenths.     *)

NoTemplate == [t |-> "none", keys |-> <<>>]
TemplateDict(keys) == [t |-> "dict", keys |-> keys]
TemplatePath(keys) == [t |-> "path", keys |-> keys]
K_team1 == "team1ChampionsResourcesRoi"
K_team2 == "team2ChampionsResourcesRoi"
K_reference_size == "reference_size"
\* the template file of the detector holds both team regions
DefaultDocument == <<K_team1, K_team2, K_reference_size>>

_ROLE_ORDER_bars == <<"TOP", "JUNGLE", "MID", "BOT", "SUPPORT">>

Has(keys, k) == \E i \in 1..Len(keys) : keys[i] = k

\* _load_rois: {"team1": tpl[...], "team2": tpl[...]}, as <<key, region>> pairs
_load_rois(keys) ==
    IF Has(keys, K_team1) /\ Has(keys, K_team2)
    THEN <<<<"team1", K_team1>>, <<"team2", K_team2>>>>
    ELSE Raise("KeyError")

\* a parsed document is used as it is: every key is an entry
TemplateItself(keys) == [i \in 1..Len(keys) |-> <<keys[i], keys[i]>>]

RECURSIVE InsertByY(_, _)
InsertByY(rows, r) ==
    IF rows = <<>> THEN <<r>>
    ELSE IF Head(rows).y <= r.y THEN <<Head(rows)>> \o InsertByY(Tail(rows), r)
    ELSE <<r>> \o rows

RECURSIVE SortedByY(_, _)
\* sorted(detections[team], key=lambda t: t[1]), acc the part done
SortedByY(acc, rects) ==
    IF rects = <<>> THEN acc ELSE SortedByY(InsertByY(acc, Head(rects)), Tail(rects))

RECURSIVE MaxW(_)
\* max((w for _, _, w, _ in rows), default=None), None as 0
MaxW(rows) ==
    IF rows = <<>> THEN 0
    ELSE IF Tail(rows) = <<>> \/ Head(rows).w >= MaxW(Tail(rows)) THEN Head(rows).w
    ELSE MaxW(Tail(rows))

\* round((w / max_w) * 100, 1), in tenths
Percent(w, max_w) == [t |-> "float", tenths |-> (2000 * w + max_w) \div (2 * max_w)]

\* the rows of one team to its five roles
TeamReadings(rects) ==
    LET rows == SortedByY(<<>>, rects)
        max_w == MaxW(rows)
    IN [role \in {_ROLE_ORDER_bars[i] : i \in 1..Len(_ROLE_ORDER_bars)} |->
          LET i == CHOOSE j \in 1..Len(_ROLE_ORDER_bars) : _ROLE_ORDER_bars[j] = role
          IN IF i <= Len(rows) /\ max_w # 0 THEN Percent(rows[i].w, max_w) ELSE JNull]

\* the body shared by both detectors: the first entry is blue, every later
\* entry is red and replaces the one before; the value of a reference_size
\* entry is a pair of numbers, which _scale_pts cannot unpack
DetectBars(rois_raw, found) ==
    LET blue == IF Len(rois_raw) >= 1 THEN found[rois_raw[1][2]] ELSE <<>>
        red == IF Len(rois_raw) >= 2 THEN found[rois_raw[Len(rois_raw)][2]] ELSE <<>>
    IN IF \E i \in 1..Len(rois_raw) : rois_raw[i][2] = K_reference_size THEN Raise("TypeError")
       ELSE [t |-> "dict", blue |-> TeamReadings(blue), red |-> TeamReadings(red)]

detect_health_bars(roi_template, found) ==
    CASE roi_template.t = "none" -> DetectBars(_load_rois(DefaultDocument), found)
      [] roi_template.t = "dict" -> DetectBars(TemplateItself(roi_template.keys), found)
      [] OTHER -> Raise("AttributeError")

detect_mana_bars(roi_template, found) ==
    CASE roi_template.t = "path" ->
            IF Has(roi_template.keys, K_team1) /\ Has(roi_template.keys, K_team2)
            THEN DetectBars(_load_rois(roi_template.keys), found)
            ELSE _load_rois(roi_template.keys)
      [] roi_template.t = "none" -> DetectBars(_load_rois(DefaultDocument), found)
      [] OTHER -> DetectBars(TemplateItself(roi_template.keys), found)

-----------------------------------------------------------------------------
(* python_backend health_detection.py: the script's main(), its printed     *)
(* percentages as readings.  The blue side takes the second bar from the    *)
(* top ("vida jungle") as 100 % when there are at least two bars.           *)

ROLE_LABELS == <<"vida top", "vida jungle", "vida mid", "vida bot", "vida support">>
REFERENCE_BLUE == "vida jungle"
LabelIndex(label) == CHOOSE j \in 1..Len(ROLE_LABELS) : ROLE_LABELS[j] = label

\* full_width["azul"]: the reference bar if detected, else the widest
FullWidthBlue(rects) ==
    LET blue_sorted == SortedByY(<<>>, rects)
    IN IF blue_sorted # <<>> /\ Len(blue_sorted) >= LabelIndex(REFERENCE_BLUE)
       THEN blue_sorted[LabelIndex(REFERENCE_BLUE)].w
       ELSE MaxW(rects)

\* the lines printed for one team: f"{(w / full_width * 100):5.1f}%", " ?.?%"
\* without a reference width, "no detectado" beyond the bars found
PrintedReadings(rects, full_width) ==
    LET det_sorted == SortedByY(<<>>, rects)
    IN [label \in {ROLE_LABELS[i] : i \in 1..Len(ROLE_LABELS)} |->
          IF LabelIndex(label) <= Len(det_sorted)
          THEN IF full_width # 0 THEN Percent(det_sorted[LabelIndex(label)].w, full_width)
               ELSE [t |-> "unknown"]
          ELSE JNull]

health_detection_main(found) ==
    [t |-> "dict",
     azul |-> PrintedReadings(found[K_team1], FullWidthBlue(found[K_team1])),
     rojo |-> PrintedReadings(found[K_team2], MaxW(found[K_team2]))]

-----------------------------------------------------------------------------
(* python_backend red_players_detection.py: merging of small red            *)
(* fragments.  A rectangle is [x, y, w, h, rid, hsv], hsv a triple.         *)

SMALL_W_MAX == 75
X_GAP == 150
Y_GAP == 15

Abs(n) == IF n < 0 THEN -n ELSE n

\* abs(cx-sx)<=X_GAP and abs(cy-sy)<=Y_GAP, centres at x + w//2, y + h//2
Near(c, r) ==
    /\ Abs((c.x + c.w \div 2) - (r.x + r.w \div 2)) <= X_GAP
    /\ Abs((c.y + c.h \div 2) - (r.y + r.h \div 2)) <= Y_GAP

RECURSIVE Ascending(_)
\* the indices of a set in the order of enumerate(small)
Ascending(S) ==
    IF S = {} THEN <<>>
    ELSE LET lo == CHOOSE i \in S : \A j \in S : i <= j
         IN <<lo>> \o Ascending(S \ {lo})

RECURSIVE Grow(_, _, _, _)
\* the while loop over grp: every unused fragment near grp[idx] joins
Grow(small, grp, idx, used) ==
    IF idx > Len(grp) THEN [grp |-> grp, used |-> used]
    ELSE LET new == {j \in 1..Len(small) : j \notin used /\ Near(small[grp[idx]], small[j])}
         IN Grow(small, grp \o Ascending(new), idx + 1, used \cup new)

RECURSIVE Clusters(_, _, _, _)
\* the for loop over enumerate(small); a cluster is a sequence of indices
Clusters(small, i, used, clusters) ==
    IF i > Len(small) THEN clusters
    ELSE IF i \in used THEN Clusters(small, i + 1, used, clusters)
    ELSE LET g == Grow(small, <<i>>, 1, used \cup {i})
         IN Clusters(small, i + 1, g.used, Append(clusters, g.grp))

SetMin(S) == CHOOSE a \in S : \A b \in S : a <= b
SetMax(S) == CHOOSE a \in S : \A b \in S : a >= b

RECURSIVE WeightedSum(_, _, _)
\* sum(r[5][c] * a for r, a in zip(grp, areas))
WeightedSum(small, grp, c) ==
    IF grp = <<>> THEN 0
    ELSE small[Head(grp)].hsv[c] * small[Head(grp)].w * small[Head(grp)].h
         + WeightedSum(small, Tail(grp), c)

RECURSIVE TotalArea(_, _)
TotalArea(small, grp) ==
    IF grp = <<>> THEN 0
    ELSE small[Head(grp)].w * small[Head(grp)].h + TotalArea(small, Tail(grp))

\* the rectangle appended to merged for one cluster
MergedRect(small, grp) ==
    LET members == {small[grp[k]] : k \in 1..Len(grp)}
        x == SetMin({r.x : r \in members})
        y == SetMin({r.y : r \in members})
        total == TotalArea(small, grp)
    IN [x |-> x, y |-> y,
        w |-> SetMax({r.x + r.w : r \in members}) - x,
        h |-> SetMax({r.y + r.h : r \in members}) - y,
        rid |-> small[grp[1]].rid,
        hsv |-> <<WeightedSum(small, grp, 1) \div total, WeightedSum(small, grp, 2) \div total,
                  WeightedSum(small, grp, 3) \div total>>]

RECURSIVE MergedOf(_, _)
\* the loop over clusters: a cluster of one is skipped
MergedOf(small, clusters) ==
    IF clusters = <<>> THEN <<>>
    ELSE IF Len(Head(clusters)) = 1 THEN MergedOf(small, Tail(clusters))
    ELSE <<MergedRect(small, Head(clusters))>> \o MergedOf(small, Tail(clusters))

RECURSIVE MergedAll(_, _)
MergedAll(small, clusters) ==
    IF clusters = <<>> THEN <<>>
    ELSE <<MergedRect(small, Head(clusters))>> \o MergedAll(small, Tail(clusters))

\* mutant of fusionar_pequenos: a fragment alone is kept
fusionar_pequenos_keepsIsolated(rects) ==
    SelectSeq(rects, LAMBDA r : r.w >= SMALL_W_MAX)
    \o MergedAll(SelectSeq(rects, LAMBDA r : r.w < SMALL_W_MAX),
                 Clusters(SelectSeq(rects, LAMBDA r : r.w < SMALL_W_MAX), 1, {}, <<>>))

fusionar_pequenos(rects) ==
    LET large == SelectSeq(rects, LAMBDA r : r.w >= SMALL_W_MAX)
        small == SelectSeq(rects, LAMBDA r : r.w < SMALL_W_MAX)
    IN large \o MergedOf(small, Clusters(small, 1, {}, <<>>))

-----------------------------------------------------------------------------
(* The frame-analysis functions applied to inputs *)

RedRect(x, y, w, h, rid) == [x |-> x, y |-> y, w |-> w, h |-> h, rid |-> rid, hsv |-> <<rid, 100 + x \div 10, 150>>]
\* fragments 60 px and 5 px apart, a chain at exactly X_GAP, one 500 px away,
\* one 16 px lower, and rectangles at and above the cutoff
RedRects == {RedRect(100, 100, 40, 12, 0), RedRect(160, 105, 41, 12, 1), RedRect(310, 110, 40, 12, 2),
             RedRect(600, 100, 40, 12, 3), RedRect(100, 116, 74, 12, 4),
             RedRect(110, 100, 80, 12, 5), RedRect(200, 100, 75, 20, 6)}
RedRectLists == UNION {{l \in [1..n -> RedRects] : \A i, j \in 1..n : l[i] = l[j] => i = j} : n \in 0..MaxRects}

FusionarPequenos ==
    /\ vision = NoVision
    /\ \E rects \in RedRectLists :
          vision' = [op |-> "fusionar_pequenos", rects |-> rects, out |-> fusionar_pequenos(rects)]
    /\ UNCHANGED <<disk, prev, last, nops, running, tasks, queue, serial, wk>>

K_timer == "timerRoi"
Documents == {<<K_team1, K_team2>>, <<K_team2, K_team1>>, <<K_team1, K_team2, K_reference_size>>,
              <<K_team1, K_team2, K_timer>>, <<K_team1>>}
Templates == {NoTemplate} \cup {TemplateDict(d) : d \in Documents} \cup {TemplatePath(d) : d \in Documents}
Rect(y, w) == [y |-> y, w |-> w]
\* what the contour filter can leave of one crop
RectLists == {<<>>, <<Rect(10, 60)>>, <<Rect(40, 30), Rect(10, 60)>>,
              <<Rect(30, 45), Rect(10, 30), Rect(20, 60)>>,
              <<Rect(50, 30), Rect(40, 45), Rect(30, 60), Rect(20, 45), Rect(10, 30)>>,
              <<Rect(10, 60), Rect(20, 60), Rect(30, 45), Rect(60, 30), Rect(50, 45), Rect(40, 60)>>}
Found == [{K_team1, K_team2, K_timer} -> RectLists]

DetectHealthBars ==
    /\ vision = NoVision
    /\ \E tpl \in Templates, found \in Found :
          vision' = [op |-> "detect_health_bars", roi_template |-> tpl, found |-> found,
                     out |-> detect_health_bars(tpl, found)]
    /\ UNCHANGED <<disk, prev, last, nops, running, tasks, queue, serial, wk>>

DetectManaBars ==
    /\ vision = NoVision
    /\ \E tpl \in Templates, found \in Found :
          vision' = [op |-> "detect_mana_bars", roi_template |-> tpl, found |-> found,
                     out |-> detect_mana_bars(tpl, found)]
    /\ UNCHANGED <<disk, prev, last, nops, running, tasks, queue, serial, wk>>

\* coordinates 0.0, 0.5, 1.0 and 3.0, in halves
HalfCoords == {0, 1, 2, 6}
Points == HalfCoords \X HalfCoords
\* a region of two corners
Regions == {<<p, q>> : p \in Points, q \in Points}
Sizes == {<<960, 540>>, <<1920, 1080>>, <<3840, 2160>>}
RefSizes == {None} \cup Sizes

\* reference identifiers in lexicographic order
RefIds == <<"ahri", "annie", "ashe">>
\* the orders in which glob.glob can list the reference folder
Enumerations == {e \in [1..Len(RefIds) -> 1..Len(RefIds)] : \A i, j \in 1..Len(RefIds) : e[i] = e[j] => i = j}
Goods == [1..Len(RefIds) -> 0..MaxGood]
Targets(e, good) == [i \in 1..Len(RefIds) |-> <<RefIds[e[i]], good[e[i]]>>]

\* one seat matched in two runs that list the same references in two orders
MatchSeat ==
    /\ vision = NoVision
    /\ \E good \in Goods, e1 \in Enumerations, e2 \in Enumerations, q \in BOOLEAN :
          vision' = [op |-> "match", good |-> good, has_descriptors |-> q,
                     targets1 |-> Targets(e1, good), targets2 |-> Targets(e2, good),
                     label1 |-> SeatLabel(_extract_and_match(q, Targets(e1, good), top_k)),
                     label2 |-> SeatLabel(_extract_and_match(q, Targets(e2, good), top_k))]
    /\ UNCHANGED <<disk, prev, last, nops, running, tasks, queue, serial, wk>>

ScalePoints ==
    /\ vision = NoVision
    /\ \E pts \in Regions, f \in Sizes, ref \in RefSizes :
          vision' = [op |-> "scale_points", pts |-> pts, frame |-> f, ref |-> ref,
                     out |-> scale_points(pts, f[1], f[2], ref)]
    /\ UNCHANGED <<disk, prev, last, nops, running, tasks, queue, serial, wk>>

ScalePtsBars ==
    /\ vision = NoVision
    /\ \E pts \in Regions, f \in Sizes, ref \in RefSizes :
          vision' = [op |-> "_scale_pts", pts |-> pts, frame |-> f, ref |-> ref,
                     out |-> _scale_pts(pts, f[1], f[2], ref)]
    /\ UNCHANGED <<disk, prev, last, nops, running, tasks, queue, serial, wk>>

ScalePtsOcr ==
    /\ vision = NoVision
    /\ \E pts \in Regions, f \in Sizes, ref \in RefSizes :
          vision' = [op |-> "_scale_pts_ocr", pts |-> pts, frame |-> f, ref |-> ref,
                     out |-> _scale_pts_ocr(pts, f[1], f[2], ref)]
    /\ UNCHANGED <<disk, prev, last, nops, running, tasks, queue, serial, wk>>

\* boxes with x1 <= x2
Boxes == {<<x1, y1, x1 + w, y1 + 2>> : x1 \in {0, 3}, y1 \in {0, 5}, w \in 0..MaxWidth}

Subdivide ==
    /\ vision = NoVision
    /\ \E box \in Boxes, n \in 1..MaxSeats :
          vision' = [op |-> "subdivide_roi", box |-> box, n |-> n,
                     out |-> subdivide_roi(box, n)]
    /\ UNCHANGED <<disk, prev, last, nops, running, tasks, queue, serial, wk>>

HealthDetectionMain ==
    /\ vision = NoVision
    /\ \E found \in Found :
          vision' = [op |-> "health_detection_main", found |-> found,
                     out |-> health_detection_main(found)]
    /\ UNCHANGED <<disk, prev, last, nops, running, tasks, queue, serial, wk>>

NextVision ==
    \/ Subdivide
    \/ ScalePoints
    \/ ScalePtsBars
    \/ ScalePtsOcr
    \/ MatchSeat
    \/ DetectHealthBars
    \/ DetectManaBars
    \/ HealthDetectionMain
    \/ FusionarPequenos

SpecVision == Init /\ [][NextVision]_vars

-----------------------------------------------------------------------------
(* core/worker.py with its two producers, api/pipeline.py and api/video.py: *)
(* the life of a job.  A job is the dict put on the queue, with the number  *)
(* of its request added as id; the job of /api/video/processVideoSignal has *)
(* no "match" key.  Frame extraction, the detectors and update_game are     *)
(* taken by their outcome: the line the worker prints.  A _worker_loop task *)
(* is at "get" (await queue.get()), at "extract" (await                     *)
(* async_extract_frame, holding a job), or has ended: "failed" by an        *)
(* exception, "cancelled" by a cancellation.                                *)

MainGameJob(id) == [id |-> id, url |-> "u", time |-> 0, match |-> T_A]
VideoSignalJob(id) == [id |-> id, url |-> "u", time |-> 0]

\* asyncio.Task.done()
TaskDone(w, l) == w.loops[l].pc \in {"failed", "cancelled"}
LiveLoops(w) == {l \in LoopIds : w.loops[l].pc \in {"get", "extract"}}

\* asyncio.create_task(_worker_loop()): the new task is before its first await
CreateTask(w) ==
    LET l == CHOOSE k \in LoopIds : w.loops[k].pc = "none" /\ \A j \in LoopIds : j < k => w.loops[j].pc # "none"
    IN [w EXCEPT !._worker_task = l, !.loops[l].pc = "get"]

\* mutant of ensure_worker_started: a task is created at every call
ensure_worker_started_everyCall(w) == CreateTask(w)

ensure_worker_started(w) ==
    IF w._worker_task = 0 \/ TaskDone(w, w._worker_task) THEN CreateTask(w) ELSE w

\* queue.put(job) on the unbounded queue: _unfinished_tasks += 1
Put(w, job) == [w EXCEPT !.sent = @ + 1, !.unfinished = @ + 1]

\* queue.task_done() for the job held
MarkDone(w, job) == [w EXCEPT !.unfinished = @ - 1, !.marked[job.id] = @ + 1]

\* process_main_game_ep; neither await gives up the thread
ProcessMainGame ==
    /\ wk.sent < MaxJobs
    /\ queue' = Append(queue, MainGameJob(wk.sent + 1))
    /\ wk' = Put(ensure_worker_started(wk), MainGameJob(wk.sent + 1))
    /\ UNCHANGED <<disk, prev, last, nops, running, tasks, serial, vision>>

\* process_video_signal
ProcessVideoSignal ==
    /\ wk.sent < MaxJobs
    /\ queue' = Append(queue, VideoSignalJob(wk.sent + 1))
    /\ wk' = Put(ensure_worker_started(wk), VideoSignalJob(wk.sent + 1))
    /\ UNCHANGED <<disk, prev, last, nops, running, tasks, serial, vision>>

\* job = await queue.get(); url, t, match = job["url"], job["time"],
\* job["match"], which is before the try: a KeyError ends the task
LoopGet(l) ==
    /\ wk.loops[l].pc = "get" /\ queue # <<>>
    /\ queue' = Tail(queue)
    /\ wk' = IF "match" \in DOMAIN Head(queue)
             THEN [wk EXCEPT !.taken = @ \cup {Head(queue).id},
                             !.loops[l] = [pc |-> "extract", job |-> Head(queue)]]
             ELSE [wk EXCEPT !.taken = @ \cup {Head(queue).id},
                             !.loops[l] = [pc |-> "failed", job |-> Head(queue)]]
    /\ UNCHANGED <<disk, prev, last, nops, running, tasks, serial, vision>>

\* the try block ends: a snapshot added, a snapshot skipped, or an exception
\* caught by except Exception; finally queue.task_done(), and back to get
WorkerOutcomes == {"snapshot added", "snapshot skipped", "Worker error"}

LoopProcess(l) ==
    /\ wk.loops[l].pc = "extract"
    /\ \E outcome \in WorkerOutcomes :
          wk' = [MarkDone(wk, wk.loops[l].job) EXCEPT
                    !.log = Append(@, <<wk.loops[l].job.id, outcome>>),
                    !.loops[l] = [pc |-> "get", job |-> NoJob]]
    /\ UNCHANGED <<disk, prev, last, nops, running, tasks, queue, serial, vision>>

\* the task is cancelled at its await: at queue.get() it ends at once, inside
\* the try the finally clause runs first
LoopCancelled(l) ==
    /\ wk.loops[l].pc \in {"get", "extract"} /\ wk.cancels < MaxCancels
    /\ wk' = IF wk.loops[l].pc = "extract"
             THEN [MarkDone(wk, wk.loops[l].job) EXCEPT !.cancels = @ + 1,
                                                        !.loops[l].pc = "cancelled"]
             ELSE [wk EXCEPT !.cancels = @ + 1, !.loops[l].pc = "cancelled"]
    /\ UNCHANGED <<disk, prev, last, nops, running, tasks, queue, serial, vision>>

NextWorker ==
    \/ ProcessMainGame
    \/ ProcessVideoSignal
    \/ \E l \in LoopIds : LoopGet(l)
    \/ \E l \in LoopIds : LoopProcess(l)
    \/ \E l \in LoopIds : LoopCancelled(l)

SpecWorker == Init /\ [][NextWorker]_vars

\* the same without cancellation, which nothing in the code requests: the
\* event loop runs a task that is ready, and extraction and detection end
NextWorkerLive ==
    \/ ProcessMainGame
    \/ ProcessVideoSignal
    \/ \E l \in LoopIds : LoopGet(l)
    \/ \E l \in LoopIds : LoopProcess(l)

SpecWorkerLive ==
    /\ Init /\ [][NextWorkerLive]_vars
    /\ \A l \in LoopIds : WF_vars(LoopGet(l)) /\ WF_vars(LoopProcess(l))

-----------------------------------------------------------------------------
(* Properties of the store under sequential calls (Spec) *)

\* the file of the match of the last call, before and after the call
LastSlug == _path_for(last.title)
Before == prev[LastSlug]
After == disk[LastSlug]

RECURSIVE MergeAsSpecified(_, _)
\* the merge of section 4.5: per key of inc, two mappings merge recursively,
\* anything else is replaced by the incoming value; other keys are kept
MergeAsSpecified(dst, inc) ==
    JDict([k \in DOMAIN dst.m \cup DOMAIN inc.m |->
              IF k \notin DOMAIN inc.m THEN dst.m[k]
              ELSE IF k \in DOMAIN dst.m /\ IsDict(dst.m[k]) /\ IsDict(inc.m[k])
                   THEN MergeAsSpecified(dst.m[k], inc.m[k])
                   ELSE inc.m[k]])

StoredAt(file, key) ==
    IF OrdHas(file.live_game_info, key) THEN file.live_game_info.m[key] ELSE EmptyDict

\* C2 (as claimed): after add_or_update_snapshot on a started match the time
\* key holds the stored fragment deep-merged with the incoming one: two
\* mappings are merged recursively, in every other case (a stored scalar or
\* null meeting an incoming mapping included) the incoming value replaces the
\* stored one, and keys absent from the incoming fragment keep their value.
C2_DeepMergeAsClaimed ==
    (last.op = "add_or_update_snapshot" /\ Exists(Before))
    => /\ OrdHas(After.live_game_info, TimerKey(last.timer))
       /\ After.live_game_info.m[TimerKey(last.timer)]
             = MergeAsSpecified(StoredAt(Before, TimerKey(last.timer)), last.frag)

\* C3 (as claimed): add_or_update_snapshot raises exactly when the match has no
\* persisted record; on a started match it returns for every time key and
\* fragment, whatever the key already holds.
C3_FailsOnlyWhenNotStarted ==
    last.op = "add_or_update_snapshot"
    => (last.exc # "none" <=> ~Exists(Before))

\* MM:SS of s seconds, both parts two digits (s < 6000)
CanonicalKey(s) ==
    <<Digits[((s \div 60) \div 10) + 1], Digits[((s \div 60) % 10) + 1], ":",
      Digits[((s % 60) \div 10) + 1], Digits[((s % 60) % 10) + 1]>>

\* the last call submitted its snapshot with the timer as raw seconds: an int
\* given to add_or_update_snapshot, or the digits-only form of the endpoint
SubmittedAsSeconds ==
    \/ last.op = "add_or_update_snapshot" /\ last.timer.t = "int" /\ last.timer.v >= 0
    \/ last.op = "snapshot_endpoint" /\ AllDigits(last.timer.chars)
SubmittedSeconds ==
    IF last.timer.t = "int" THEN last.timer.v ELSE DigitsVal(last.timer.chars, 0)

\* C4 (as claimed): a snapshot submitted with raw seconds s, directly or
\* through POST /api/game_state/snapshot, is stored under the key MM:SS with
\* MM = s div 60 and SS = s mod 60, and under no other new key.
C4_SecondsStoredAsMMSS ==
    (SubmittedAsSeconds /\ last.exc = "none" /\ Exists(Before))
    => /\ OrdHas(After.live_game_info, CanonicalKey(SubmittedSeconds))
       /\ OrdKeys(After.live_game_info)
             \subseteq OrdKeys(Before.live_game_info) \cup {CanonicalKey(SubmittedSeconds)}

\* C5 (as claimed): end_game on a started match that holds a key besides
\* startGame/endGame returns, leaves under endGame the snapshot of a key whose
\* minutes*60+seconds is greatest, and records BLUE for winner 0, RED for 1.
C5_EndGameCopiesLatest ==
    (last.op = "end_game" /\ Exists(Before) /\ Usable(Before.live_game_info) # <<>>)
    => LET usable == Usable(Before.live_game_info)
       IN /\ last.exc = "none"
          /\ \E i \in 1..Len(usable) :
                /\ \A j \in 1..Len(usable) :
                      KeySeconds(usable[j]).val <= KeySeconds(usable[i]).val
                /\ After.live_game_info.m[K_endGame] = Before.live_game_info.m[usable[i]]
          /\ After.live_game_info.m[K_winner]
                = JStr(IF last.winner = 0 THEN "BLUE" ELSE "RED")

\* C6: end_game raises the no-snapshots condition (RuntimeError) exactly when
\* the match has a record whose live_game_info has no key besides startGame
\* and endGame, and then the persisted record is what it was before the call.
C6_NoSnapshotsExactly ==
    last.op = "end_game"
    => /\ last.exc = "RuntimeError"
             <=> (Exists(Before) /\
                  OrdKeys(Before.live_game_info) \subseteq {K_startGame, K_endGame})
       /\ last.exc = "RuntimeError" => disk = prev

\* C6 witness: end_game was called on a started match without snapshots
C6_Witness ==
    /\ last.op = "end_game" /\ last.exc = "RuntimeError"
    /\ Exists(Before) /\ OrdKeys(Before.live_game_info) = {K_startGame}

\* the champion a draft argument gives to role r: the value of the last entry
\* whose key is that Role or spells its name in any letter case, else ""
GivenChampion(src, r) ==
    LET hits == {i \in 1..Len(src) :
                    \/ src[i][1].t = "enum" /\ src[i][1].name = r
                    \/ src[i][1].t = "str" /\ Join(PyUpper(src[i][1].chars)) = r}
    IN IF hits = {} THEN ""
       ELSE src[CHOOSE i \in hits : \A j \in hits : j <= i][2]

\* every statistic of a snapshot is null: 8 per player, 4 per team, 5 timers
AllStatisticsNull(snap) ==
    /\ DOMAIN snap.m = {"blue", "red", "global_"}
    /\ \A side \in {"blue", "red"} :
          /\ DOMAIN snap.m[side].m = {"color", "players", "stats"}
          /\ DOMAIN snap.m[side].m.players.m = Roles
          /\ \A r \in Roles :
                /\ Cardinality(DOMAIN snap.m[side].m.players.m[r].m) = 8
                /\ \A f \in DOMAIN snap.m[side].m.players.m[r].m :
                      snap.m[side].m.players.m[r].m[f] = JNull
          /\ Cardinality(DOMAIN snap.m[side].m.stats.m) = 4
          /\ \A f \in DOMAIN snap.m[side].m.stats.m : snap.m[side].m.stats.m[f] = JNull
    /\ Cardinality(DOMAIN snap.m["global_"].m) = 5
    /\ \A f \in DOMAIN snap.m["global_"].m : snap.m["global_"].m[f] = JNull

\* C7: start_game never raises and, whatever the match held before, leaves a
\* record whose draft is the given team names and champions and whose
\* live_game_info has the single key startGame with every statistic null.
C7_StartGameOverwrites ==
    last.op = "start_game"
    => /\ last.exc = "none"
       /\ Exists(After)
       /\ After.static_game_info.blue.team_name = last.draft.blue_team_name
       /\ After.static_game_info.red.team_name = last.draft.red_team_name
       /\ DOMAIN After.static_game_info.blue.champions = Roles
       /\ DOMAIN After.static_game_info.red.champions = Roles
       /\ \A r \in Roles :
             /\ After.static_game_info.blue.champions[r]
                   = GivenChampion(last.draft.blue_champions, r)
             /\ After.static_game_info.red.champions[r]
                   = GivenChampion(last.draft.red_champions, r)
       /\ After.live_game_info.ord = <<K_startGame>>
       /\ AllStatisticsNull(After.live_game_info.m[K_startGame])

\* C7 witness: start_game was called on a match that had been ended, with a
\* different draft
C7_Witness ==
    /\ last.op = "start_game"
    /\ Exists(Before)
    /\ OrdHas(Before.live_game_info, K_endGame)
    /\ OrdHas(Before.live_game_info, K_winner)
    /\ Before.static_game_info.blue.team_name # last.draft.blue_team_name

\* C8 (as claimed): add_or_update_snapshot(title, key, {}) on a started match
\* leaves the timeline returned by get_game_state(title) unchanged, for a key
\* that is present and for one that is not.
C8_EmptyMergeIsNoOp ==
    (last.op = "add_or_update_snapshot" /\ last.frag = EmptyDict /\ Exists(Before))
    => get_game_state(disk, last.title) = get_game_state(prev, last.title)

\* C8 (amended): add_or_update_snapshot(title, key, {}) on a started match
\* returns; when the key is present the timeline returned by get_game_state
\* is unchanged; when it is not, the only change is that the key is appended
\* holding the empty fragment.
C8_EmptyMergeAmended ==
    (last.op = "add_or_update_snapshot" /\ last.frag = EmptyDict /\ Exists(Before))
    => LET key == TimerKey(last.timer)
       IN /\ last.exc = "none"
          /\ OrdHas(Before.live_game_info, key)
                => get_game_state(disk, last.title) = get_game_state(prev, last.title)
          /\ ~OrdHas(Before.live_game_info, key)
                => /\ After.static_game_info = Before.static_game_info
                   /\ After.live_game_info.ord = Append(Before.live_game_info.ord, key)
                   /\ After.live_game_info.m[key] = EmptyDict
                   /\ \A k \in OrdKeys(Before.live_game_info) :
                         After.live_game_info.m[k] = Before.live_game_info.m[k]

\* C8 witness: the empty fragment was merged into a key that held values
C8_Witness ==
    /\ last.op = "add_or_update_snapshot" /\ last.frag = EmptyDict
    /\ Exists(Before)
    /\ OrdHas(Before.live_game_info, TimerKey(last.timer))
    /\ TimerKey(last.timer) # K_startGame
    /\ Before.live_game_info.m[TimerKey(last.timer)] # EmptyDict

\* C9: get_game_state, add_or_update_snapshot and end_game raise the not-found
\* condition (FileNotFoundError) exactly when the title has no record, never
\* the no-snapshots condition (RuntimeError), and the disk stays as it was.
C9_NotFound ==
    last.op \in {"get_game_state", "add_or_update_snapshot", "end_game"}
    => /\ last.exc = "FileNotFoundError" <=> ~Exists(Before)
       /\ ~Exists(Before) => (last.exc # "RuntimeError" /\ disk = prev /\ ~Exists(After))

\* C9 witness: end_game was called for a title without a record
C9_Witness ==
    /\ last.op = "end_game"
    /\ ~Exists(Before)
    /\ last.exc = "FileNotFoundError"

\* C10: every persisted record has the key startGame in live_game_info.
C10_StartGamePresent ==
    \A s \in Slugs : Exists(disk[s]) => OrdHas(disk[s].live_game_info, K_startGame)

\* C10 witness: a record that holds a time-keyed snapshot and has been ended
C10_Witness ==
    \E s \in Slugs :
        /\ Exists(disk[s])
        /\ OrdHas(disk[s].live_game_info, K_0135)
        /\ OrdHas(disk[s].live_game_info, K_endGame)

IsMMSS(k) ==
    /\ Len(k) = 5
    /\ IsDigit(k[1]) /\ IsDigit(k[2]) /\ k[3] = ":" /\ IsDigit(k[4]) /\ IsDigit(k[5])

\* C16: in every reachable state of a match's record each key of
\* live_game_info is startGame, endGame or a canonical MM:SS time key,
\* whichever operation produced it.
C16_KeysCanonical ==
    \A title \in Titles :
       Exists(disk[_path_for(title)])
          => \A k \in KeysOf(disk, title) : k \in {K_startGame, K_endGame} \/ IsMMSS(k)

-----------------------------------------------------------------------------
(* Properties of the store under the event loop (SpecLoop) *)

\* task t is between the start of its load-modify-save and the end of it
InMutation(t) == tasks[t].pc \in {"loaded", "merged"}

\* t made an add_or_update_snapshot call that has returned
AddReturned(t) ==
    /\ tasks[t].call.op \in {"snapshot_endpoint", "update_game"}
    /\ tasks[t].pc \in {"returned", "done", "waiting"}
    /\ tasks[t].call.exc = "none"
    /\ tasks[t].call.op = "update_game" => tasks[t].call.frag # EmptyDict

\* the time key and the fragment of the add made by t
AddKey(t) == TimerKey(tasks[t].call.timer)
AddFragment(t) == tasks[t].call.frag

\* the persisted record holds every entry of the fragment of t under its key
FragmentPersisted(t) ==
    LET file == disk[_path_for(tasks[t].call.title)]
    IN /\ Exists(file)
       /\ OrdHas(file.live_game_info, AddKey(t))
       /\ IsDict(file.live_game_info.m[AddKey(t)])
       /\ DOMAIN AddFragment(t).m \subseteq DOMAIN file.live_game_info.m[AddKey(t)].m

\* C1: mutations of one match are mutually exclusive.  In every interleaving
\* of the handlers and the worker no two tasks are inside the load-modify-save
\* of the same match at once, a task inside it still has on disk the document
\* it read, the disk is what the saved calls give when run one after another,
\* and once two adds on a match have both returned (no start_game having
\* been issued) the record holds the fragments of both.
C1_MutationsMutuallyExclusive ==
    /\ \A t, u \in TaskIds :
          t # u /\ InMutation(t) /\ InMutation(u)
             => _path_for(tasks[t].call.title) # _path_for(tasks[u].call.title)
    /\ \A t \in TaskIds :
          InMutation(t) /\ Reads(tasks[t].call)
             => tasks[t].seen = disk[_path_for(tasks[t].call.title)]
    /\ disk = serial
    /\ \A t, u \in TaskIds :
          /\ t # u /\ AddReturned(t) /\ AddReturned(u)
          /\ tasks[t].call.title = tasks[u].call.title
          /\ \A v \in TaskIds : tasks[v].call.op # "start_game"
          => FragmentPersisted(t) /\ FragmentPersisted(u)

\* a handler merged a fragment while the worker was extracting the frame of
\* its job for the same match, and both adds have returned
C1_Witness ==
    \E t \in Requests :
       /\ AddReturned(t) /\ AddReturned(Worker)
       /\ tasks[t].call.title = tasks[Worker].call.title
       /\ tasks[Worker].entry # tasks[Worker].seen
       /\ tasks[Worker].call.det = Det_1000
       /\ FragmentPersisted(t) /\ FragmentPersisted(Worker)

\* the document that merging the whole snapshot of the worker's job into the
\* document it read gives
WholeJobMerge ==
    LET c == tasks[Worker].call
        d0 == [disk EXCEPT ![_path_for(c.title)] = tasks[Worker].seen]
    IN update_game(d0, c.title, c.det.health, c.det.mana, c.det.stats).disk[_path_for(c.title)]

\* C12: a cancelled job never merges part of a fragment.  Every step of the
\* worker that changes the disk writes the document it read merged with the
\* whole snapshot of its job, and a step that cancels the worker, or that a
\* cancelled worker is part of, leaves the disk as it is: after a
\* cancellation the timeline holds the job's whole fragment or nothing of it.
C12_CancelledJobNeverPartial ==
    [][/\ tasks'[Worker] # tasks[Worker] /\ disk' # disk
          => /\ tasks[Worker].pc = "merged"
             /\ disk' = [disk EXCEPT ![_path_for(tasks[Worker].call.title)] = WholeJobMerge]
       /\ tasks'[Worker].pc = "cancelled" /\ tasks[Worker].pc # "cancelled"
          => /\ disk' = disk
             /\ tasks[Worker].pc \in {"waiting", "extracting"}]_vars

\* the worker was cancelled with a job in flight for a started match whose
\* record is as it was when the job was taken
C12_Witness ==
    /\ tasks[Worker].pc = "cancelled"
    /\ tasks[Worker].call.exc = "CancelledError"
    /\ tasks[Worker].call.op = "update_game"
    /\ Exists(tasks[Worker].entry)
    /\ disk[_path_for(tasks[Worker].call.title)] = tasks[Worker].entry

\* C13: partial results are preferred over total failure at frame level.
\* When the health-bar or mana-bar detector raised on a frame whose timer was
\* read, then once the job is over (and no start_game was issued) the
\* timeline of the started match holds, under the frame's time key, the
\* values of the detectors that did not fail.
C13_PartialResultsMerged ==
    LET c == tasks[Worker].call
        file == disk[_path_for(c.title)]
        key == Parsed(c.det.stats, "time").chars
    IN /\ tasks[Worker].pc = "waiting" /\ c.op = "update_game"
       /\ c.exc = "cv2.error"
       /\ DetectionTimerOK(Parsed(c.det.stats, "time"))
       /\ Exists(file)
       /\ \A t \in Requests : tasks[t].call.op # "start_game"
       => /\ OrdHas(file.live_game_info, key)
          /\ IsDict(file.live_game_info.m[key])
          /\ "red" \in DOMAIN file.live_game_info.m[key].m

-----------------------------------------------------------------------------
(* Properties of the store with several matches (SpecMatches) *)

\* the last call wrote the file of its match
LastSaved == last.op # "none" /\ last.exc = "none"

\* C11 as stated: a call for one title leaves the record of every match
\* with a different title unchanged.
C11_OtherTitlesUnchanged ==
    \A title \in MatchTitles :
       last.op # "none" /\ title # last.title
          => disk[_path_for(title)] = prev[_path_for(title)]

\* C11 amended: a call for one title leaves unchanged the record of every
\* match whose title has a different slug; the titles of one slug are one match.
C11_OtherSlugsUnchanged ==
    \A title \in MatchTitles :
       last.op # "none" /\ _slugify(title) # _slugify(last.title)
          => disk[_path_for(title)] = prev[_path_for(title)]

\* a call wrote the record of its match while a match of another slug has a
\* record, and a title of the same slug as the call's is in play
C11_Witness ==
    /\ LastSaved /\ disk # prev
    /\ \E title \in MatchTitles :
          /\ _slugify(title) # _slugify(last.title)
          /\ Exists(disk[_path_for(title)])
    /\ \E title \in MatchTitles :
          title # last.title /\ _slugify(title) = _slugify(last.title)

-----------------------------------------------------------------------------
(* Properties of the store under two orders of arrival (SpecOrder) *)

\* C14: the timeline is independent of arrival order.  Fragments for pairwise
\* different time keys, merged in one order and in another, leave the same
\* key-to-fragment mapping in live_game_info, the endGame that end_game
\* writes included.
C14_ArrivalOrderIndependent ==
    \A title \in Titles :
       Exists(disk[_path_for(title)])
          => /\ Exists(serial[_path_for(title)])
             /\ disk[_path_for(title)].live_game_info.m
                   = serial[_path_for(title)].live_game_info.m

-----------------------------------------------------------------------------
(* Properties of the frame-analysis functions (SpecVision) *)

Resolvers == {"scale_points", "_scale_pts", "_scale_pts_ocr"}

\* C17: in every resolver a region resolved with a reference size is scaled
\* by (frame_w/ref_w, frame_h/ref_h), also when all its coordinates lie in
\* [0,1]; at the reference resolution whole-pixel coordinates come back
\* unchanged.
C17_ReferenceWins ==
    (vision.op \in Resolvers /\ vision.ref # None)
    => /\ vision.out =
            [i \in 1..Len(vision.pts) |->
               <<(vision.pts[i][1] * vision.frame[1]) \div (2 * vision.ref[1]),
                 (vision.pts[i][2] * vision.frame[2]) \div (2 * vision.ref[2])>>]
       /\ (vision.frame = vision.ref
             /\ \A i \in 1..Len(vision.pts) : vision.pts[i][1] % 2 = 0 /\ vision.pts[i][2] % 2 = 0)
          => vision.out = [i \in 1..Len(vision.pts) |->
                             <<vision.pts[i][1] \div 2, vision.pts[i][2] \div 2>>]

\* the same for the HUD OCR extractor alone
C17_ReferenceWinsOcr ==
    vision.op = "_scale_pts_ocr" => C17_ReferenceWins

\* the references with the most accepted matches, by index into RefIds
Best(good) == {i \in 1..Len(RefIds) : good[i] > 0 /\ \A j \in 1..Len(RefIds) : good[j] <= good[i]}

\* C19: the label of a seat is the reference with the most accepted
\* matches, the smallest identifier among equals, whatever the order in
\* which the references are enumerated; two runs over the same references
\* give the same label, and a seat without accepted match is labelled "?".
C19_LabelOrderIndependent ==
    vision.op = "match"
    => /\ vision.label1 = vision.label2
       /\ (vision.has_descriptors /\ Best(vision.good) # {})
            => vision.label1 = RefIds[CHOOSE i \in Best(vision.good) : \A j \in Best(vision.good) : i <= j]
       /\ (~vision.has_descriptors \/ Best(vision.good) = {}) => vision.label1 = "?"

\* what holds of the code: the label is one of the references with the most
\* accepted matches, the one enumerated first among equals, and "?" exactly
\* when no reference has an accepted match
C19_LabelIsFirstBestEnumerated ==
    vision.op = "match"
    => LET first(targets) == CHOOSE i \in 1..Len(targets) :
                                /\ \E b \in Best(vision.good) : RefIds[b] = targets[i][1]
                                /\ \A j \in 1..(i - 1) : \A b \in Best(vision.good) : RefIds[b] # targets[j][1]
       IN IF vision.has_descriptors /\ Best(vision.good) # {}
          THEN /\ vision.label1 = vision.targets1[first(vision.targets1)][1]
               /\ vision.label2 = vision.targets2[first(vision.targets2)][1]
          ELSE vision.label1 = "?" /\ vision.label2 = "?"

BarDetectors == {"detect_health_bars", "detect_mana_bars"}

\* the i-th of the rectangles of a region from top to bottom
NthFromTop(rects, i) ==
    CHOOSE r \in {rects[j] : j \in 1..Len(rects)} :
       Cardinality({j \in 1..Len(rects) : rects[j].y < r.y}) = i - 1

\* the readings of a team are those of the rectangles of the region, top to
\* bottom, for TOP, JUNGLE, MID, BOT, SUPPORT, and null beyond their number
ReadingsOf(readings, rects) ==
    /\ DOMAIN readings = {"TOP", "JUNGLE", "MID", "BOT", "SUPPORT"}
    /\ \A i \in 1..Len(_ROLE_ORDER_bars) :
          /\ readings[_ROLE_ORDER_bars[i]] # JNull <=> Len(rects) >= i
          /\ Len(rects) >= i
              => readings[_ROLE_ORDER_bars[i]] = Percent(NthFromTop(rects, i).w, MaxW(rects))

\* C20: both bar detectors always return the five roles for blue and for
\* red, the i-th role non-null exactly when at least i rectangles survived
\* in the team's region, read top to bottom; blue is read from the team-1
\* region and red from the team-2 region of the template.
C20_BarsByRegionAndRow ==
    vision.op \in BarDetectors
    => /\ ~IsRaise(vision.out)
       /\ DOMAIN vision.out = {"t", "blue", "red"}
       /\ ReadingsOf(vision.out.blue, vision.found[K_team1])
       /\ ReadingsOf(vision.out.red, vision.found[K_team2])

\* the same with the detector's own template file, or (mana) a document
\* with both team regions given by its path
C20_BarsOfLoadedTemplate ==
    (/\ vision.op \in BarDetectors
     /\ \/ vision.roi_template = NoTemplate
        \/ /\ vision.op = "detect_mana_bars" /\ vision.roi_template.t = "path"
           /\ Has(vision.roi_template.keys, K_team1) /\ Has(vision.roi_template.keys, K_team2))
    => C20_BarsByRegionAndRow

ReadingsOfCall ==
    IF vision.op = "health_detection_main"
    THEN {vision.out.azul[l] : l \in DOMAIN vision.out.azul} \cup {vision.out.rojo[l] : l \in DOMAIN vision.out.rojo}
    ELSE IF vision.op = "detect_health_bars" /\ ~IsRaise(vision.out)
    THEN {vision.out.blue[r] : r \in DOMAIN vision.out.blue} \cup {vision.out.red[r] : r \in DOMAIN vision.out.red}
    ELSE {}

\* C21: every non-null bar reading lies in [0,100], on both sides, with the
\* widest bar as 100 % and with the blue JUNGLE bar as 100 %.
C21_ReadingsWithinRange ==
    \A r \in ReadingsOfCall : r.t = "float" => 0 <= r.tenths /\ r.tenths <= 1000

\* the same for the policy of detect_health_bars alone (widest bar is 100 %)
C21_WidestBaselineWithinRange ==
    vision.op = "detect_health_bars" => C21_ReadingsWithinRange

\* the proximity relation of the claim, on the centres of two rectangles
Proximate(a, b) ==
    LET dx == (a.x + a.w \div 2) - (b.x + b.w \div 2)
        dy == (a.y + a.h \div 2) - (b.y + b.h \div 2)
    IN -X_GAP <= dx /\ dx <= X_GAP /\ -Y_GAP <= dy /\ dy <= Y_GAP

RECURSIVE Component(_, _)
\* the fragments connected to those of S by a chain of proximate fragments
Component(S, fragments) ==
    LET T == S \cup {f \in fragments : \E g \in S : Proximate(f, g)}
    IN IF T = S THEN S ELSE Component(T, fragments)

Box(r) == <<r.x, r.y, r.w, r.h>>
BoundingBox(C) ==
    LET x == SetMin({r.x : r \in C})
        y == SetMin({r.y : r \in C})
    IN <<x, y, SetMax({r.x + r.w : r \in C}) - x, SetMax({r.y + r.h : r \in C}) - y>>

-----------------------------------------------------------------------------
(* Properties of the worker and its queue (SpecWorker, SpecWorkerLive) *)

\* C23: no job stops the worker loop: a _worker_loop task never ends by an
\* exception, whatever the job it took.
C23_NoJobStopsWorker ==
    \A l \in LoopIds : wk.loops[l].pc # "failed"

\* C24: every job taken is marked done exactly once: when the queue is
\* empty and no loop holds a job, every job taken has one task_done() and
\* the count of unfinished jobs is zero, so queue.join() returns.
C24_EveryTakenJobMarkedDone ==
    /\ \A j \in 1..MaxJobs : wk.marked[j] <= 1
    /\ (queue = <<>> /\ \A l \in LoopIds : wk.loops[l].pc # "extract")
         => /\ \A j \in wk.taken : wk.marked[j] = 1
            /\ wk.unfinished = 0

\* C25: there are never two live _worker_loop tasks.
C25_AtMostOneWorkerLoop ==
    Cardinality(LiveLoops(wk)) <= 1

\* a second task is live after the first one ended, and a later call of
\* ensure_worker_started has found it live
C25_Witness ==
    /\ \E l \in LoopIds : TaskDone(wk, l)
    /\ \E l \in LiveLoops(wk) : l > 1 /\ wk._worker_task = l
    /\ wk.sent = MaxJobs

JobQueued(j) == \E i \in 1..Len(queue) : queue[i].id = j
JobHandled(j) == \E i \in 1..Len(wk.log) : wk.log[i][1] = j

\* C26: every job put on the queue is eventually taken and handled (its
\* snapshot added or skipped, or its error logged).
C26_EveryJobEventuallyHandled ==
    \A j \in 1..MaxJobs : JobQueued(j) ~> JobHandled(j)

\* what holds of the code: as long as no task has ended by an exception,
\* the jobs taken are marked done once and every job is handled
C24_MarkedDoneUnlessLoopFailed ==
    C23_NoJobStopsWorker => C24_EveryTakenJobMarkedDone

C26_HandledUnlessLoopFailed ==
    ([]C23_NoJobStopsWorker) => C26_EveryJobEventuallyHandled

-----------------------------------------------------------------------------
(* Properties of a closed match and of a repeated call (Spec) *)

\* end_game has returned for the match of this file: it holds the winner,
\* which end_game alone writes and start_game alone removes
Closed(file) == Exists(file) /\ OrdHas(file.live_game_info, K_winner)

\* C28 (as claimed): on a match on which end_game has succeeded, a further
\* add_or_update_snapshot and a further end_game return without an exception,
\* and the further end_game leaves under endGame the snapshot that is then
\* the latest.
C28_WritesAfterEndGameSucceed ==
    (last.op \in {"add_or_update_snapshot", "end_game"} /\ Closed(Before))
    => /\ last.exc = "none"
       /\ last.op = "end_game"
          => \E k \in OrdKeys(Before.live_game_info) \ {K_startGame, K_endGame, K_winner} :
                After.live_game_info.m[K_endGame] = Before.live_game_info.m[k]

\* what holds of the code: end_game on a match on which end_game has
\* succeeded raises ValueError (int("winner")) and writes nothing
C28_SecondEndGameRaises ==
    (last.op = "end_game" /\ Closed(Before))
    => last.exc = "ValueError" /\ After = Before

\* add_or_update_snapshot on a closed match merges as on an open one: it
\* returns unless _deep_merge raises on a stored value that is no mapping
C28_AddAfterEndGameMerges ==
    (last.op = "add_or_update_snapshot" /\ Closed(Before))
    => \/ /\ last.exc = "none"
          /\ Closed(After)
          /\ After.live_game_info.m[K_endGame] = Before.live_game_info.m[K_endGame]
       \/ last.exc \in {"TypeError", "AttributeError"} /\ After = Before

\* C29: for a started match, an add_or_update_snapshot call that repeats the
\* title, timer and fragment of the call just before it leaves every
\* persisted record as the first call left it.
C29_SameCallTwiceIsOnce ==
    [][(/\ last.op = "add_or_update_snapshot"
        /\ Exists(Before)
        /\ nops' = nops + 1
        /\ last'.op = "add_or_update_snapshot"
        /\ last'.title = last.title
        /\ last'.timer = last.timer
        /\ last'.frag = last.frag)
       => disk' = disk]_vars

\* a fragment that changed the record when it was first merged under a key
\* has been merged under that key again, after a fragment that it overwrites
C29_Witness ==
    /\ last.op = "add_or_update_snapshot"
    /\ last.exc = "none"
    /\ last.frag = F_a2b3
    /\ nops = MaxOps
    /\ prev = disk
    /\ StoredAt(After, TimerKey(last.timer)) = F_a2b3

-----------------------------------------------------------------------------
(* update_game on what the detectors return: the clock read, not read, or   *)
(* read as something else; two frames of one clock time with different      *)
(* readings; and time keys written through add_or_update_snapshot           *)

\* the clock of the frame was not parsed (None), or the parsed value is a
\* number or digits without a colon
Det_timeNone == [health |-> <<>>, mana |-> <<>>, stats |-> ("time" :> JNull)]
Det_timeNumber == [health |-> <<>>, mana |-> <<>>,
                   stats |-> ("time" :> JNum(95)) @@ ("redTowers" :> JNum(2))]
Det_timeDigits == [health |-> <<>>, mana |-> <<>>,
                   stats |-> ("time" :> JText(K_95)) @@ ("redTowers" :> JNum(2))]
\* a later frame of 9:59: another bar is read, the bars, kda, creeps and gold
\* of Det_959 are not
Det_959_later ==
    [health |-> [blue |-> [MID |-> JNum(70)]],
     mana |-> <<>>,
     stats |-> ("time" :> JText(K_959)) @@ ("bluePlayer1kda" :> JNull)
               @@ ("blueGold" :> JNull) @@ ("redTowers" :> JNum(2))]
FrameDetections ==
    Detections \cup {Det_timeNone, Det_timeNumber, Det_timeDigits, Det_959_later}

\* fragments written under a time key by another client of the store
F_blue1 == D1("blue", JNum(1))
TimeKeyCalls == {<<StrTimer(K_959), F_a1>>, <<StrTimer(K_1000), F_blue1>>}

UpdateGameOfFrame ==
    /\ nops < MaxOps
    /\ \E title \in Titles, det \in FrameDetections :
          Done(update_game(disk, title, det.health, det.mana, det.stats),
               [NoCall EXCEPT !.op = "update_game", !.title = title, !.det = det])

AddOrUpdateSnapshotAtTimeKey ==
    /\ nops < MaxOps
    /\ \E title \in Titles, c \in TimeKeyCalls :
          Done(add_or_update_snapshot(disk, title, c[1], c[2]),
               [NoCall EXCEPT !.op = "add_or_update_snapshot", !.title = title,
                              !.timer = c[1], !.frag = c[2]])

NextDetection == StartGame \/ UpdateGameOfFrame \/ AddOrUpdateSnapshotAtTimeKey

SpecDetection == Init /\ [][NextDetection]_vars

-----------------------------------------------------------------------------
(* Properties of update_game (SpecDetection) *)

\* a text of one or two digits, a colon and two digits
IsTimeText(v) ==
    /\ v.t = "text"
    /\ Len(v.chars) \in {4, 5}
    /\ v.chars[Len(v.chars) - 2] = ":"
    /\ \A i \in 1..Len(v.chars) : i # Len(v.chars) - 2 => IsDigit(v.chars[i])

LastParsedTime == Parsed(last.det.stats, "time")

\* the call returned TRUE and the time key holds what it held merged with the
\* snapshot of the detection
MergedUnderParsedTime ==
    /\ last.exc = "none"
    /\ last.ret = TRUE
    /\ OrdHas(After.live_game_info, LastParsedTime.chars)
    /\ After.live_game_info.m[LastParsedTime.chars]
          = MergeAsSpecified(StoredAt(Before, LastParsedTime.chars),
                             DetectionSnapshot(last.det.health, last.det.mana,
                                               last.det.stats))

\* C27 (as claimed): update_game returns False, raises nothing and leaves
\* every record as it was, started match or not, exactly when the detection
\* has no parsed time that is a text M:SS or MM:SS; otherwise it raises
\* FileNotFoundError if the match was never started, and else merges the
\* snapshot under the parsed time and returns True.
C27_UpdateGameOutcome ==
    last.op = "update_game"
    => IF ~IsTimeText(LastParsedTime)
       THEN last.exc = "none" /\ last.ret = FALSE /\ disk = prev
       ELSE IF ~Exists(Before)
            THEN last.exc = "FileNotFoundError" /\ disk = prev
            ELSE MergedUnderParsedTime

\* what holds of the code: the same, except that on a started match the
\* merge may raise on a stored value that is no mapping, and then nothing is
\* written
C27_OutcomeUnlessMergeRaises ==
    last.op = "update_game"
    => IF ~IsTimeText(LastParsedTime)
       THEN last.exc = "none" /\ last.ret = FALSE /\ disk = prev
       ELSE IF ~Exists(Before)
            THEN last.exc = "FileNotFoundError" /\ disk = prev
            ELSE \/ MergedUnderParsedTime
                 \/ /\ last.exc \in {"TypeError", "AttributeError"}
                    /\ disk = prev
                    /\ ~IsDict(StoredAt(Before, LastParsedTime.chars).m["blue"])

RECURSIVE Measured(_)
\* the paths of v that lead to a value which is neither a mapping nor null
Measured(v) ==
    IF IsDict(v)
    THEN UNION {{<<k>> \o p : p \in Measured(v.m[k])} : k \in DOMAIN v.m}
    ELSE IF v = JNull THEN {} ELSE {<<>>}

RECURSIVE At(_, _)
\* the value of v at path p, null where the path does not lead
At(v, p) ==
    IF p = <<>> THEN v
    ELSE IF IsDict(v) /\ Head(p) \in DOMAIN v.m THEN At(v.m[Head(p)], Tail(p))
    ELSE JNull

RECURSIVE HasNull(_)
HasNull(v) == IF IsDict(v) THEN \E k \in DOMAIN v.m : HasNull(v.m[k]) ELSE v = JNull

\* the snapshot update_game builds holds no null: what was not read is left out
C30_SnapshotOmitsUnread ==
    (last.op = "update_game" /\ last.exc = "none" /\ last.ret = TRUE)
    => ~HasNull(DetectionSnapshot(last.det.health, last.det.mana, last.det.stats))

\* C30: an update_game call erases no value: every field of every time key
\* of every match that held a non-null value before the call holds a
\* non-null value after it.
C30_UpdateGameErasesNothing ==
    [][(last'.op = "update_game" /\ nops' = nops + 1)
       => \A s \in Slugs :
             Exists(disk[s])
             => /\ Exists(disk'[s])
                /\ \A k \in OrdKeys(disk[s].live_game_info) :
                      /\ OrdHas(disk'[s].live_game_info, k)
                      /\ \A p \in Measured(disk[s].live_game_info.m[k]) :
                            At(disk'[s].live_game_info.m[k], p) # JNull]_vars

\* a second frame of 9:59 in which the top laner's bar and kda were not read
\* has been merged: the readings of the first frame are kept, the new
\* reading is added
C30_Witness ==
    /\ last.op = "update_game" /\ last.exc = "none" /\ last.det = Det_959_later
    /\ Exists(Before)
    /\ At(StoredAt(Before, K_959), <<"blue", "players", "TOP", "health_pct">>) = JNum(80)
    /\ At(StoredAt(Before, K_959), <<"blue", "players", "TOP", "kills">>) = JNum(1)
    /\ At(StoredAt(After, K_959), <<"blue", "players", "TOP", "health_pct">>) = JNum(80)
    /\ At(StoredAt(After, K_959), <<"blue", "players", "TOP", "kills">>) = JNum(1)
    /\ At(StoredAt(After, K_959), <<"blue", "players", "MID", "health_pct">>) = JNum(70)
    /\ At(StoredAt(Before, K_959), <<"blue", "players", "MID", "health_pct">>) = JNull

====
